---- MODULE Spec2Model ----
(***************************************************************************)
(* A model of the MOON watcher (coinbuidl/MOON): the watcher cycle         *)
(* run_once (src/src/moon/watcher.rs), the archive pipeline                *)
(* archive_and_index with its ledger (src/src/moon/archive.rs,             *)
(* src/src/moon/snapshot.rs), the channel archive map                      *)
(* (src/src/moon/channel_archive_map.rs), the trigger evaluator            *)
(* (src/src/moon/thresholds.rs) and the persisted watcher state            *)
(* (src/src/moon/state.rs).                                                *)
(*                                                                         *)
(* Three specifications share the variables:                               *)
(*   Spec      the watcher: run_once cycles, one action per cycle step,    *)
(*             each step with the failures its calls can return;           *)
(*   SpecArch  the archive pipeline called directly: archive_and_index,    *)
(*             remove_ledger_records, normalize_archive_layout;            *)
(*   SpecEval  the pure trigger evaluator applied to drawn inputs.         *)
(***************************************************************************)
EXTENDS Integers, Sequences, FiniteSets, TLC

VARIABLES
    now,          \* the wall clock, epoch seconds
    sessions,     \* transcript files of the sessions dir: source -> [bytes, mtime]
    inbox,        \* mtime of the watched inbound file, 0 when it does not exist
    files,        \* files under the archives dir: path -> bytes
    ledger,       \* archives/ledger.jsonl: the sequence of records that parse
    ledgerTorn,   \* TRUE when a whole-file rewrite of the ledger was cut short
    chanMap,      \* continuity/channel_archive_map.json: channel key -> record
    chanMapTorn,  \* TRUE when a rewrite of the channel map was cut short
    stateFile,    \* state/moon_state.json: NoFile, TornFile or a MoonState
    memoryLog,    \* memory/YYYY-MM-DD.md: archive paths of the appended summaries
    cfg,          \* the effective MoonConfig of the run
    pc,           \* position of the watcher inside run_once
    st,           \* run_once's in-memory MoonState
    cyc,          \* run_once's locals: usage, triggers, compaction targets, ...
    trace,        \* the side effects of the current cycle, in program order
    hist,         \* history: distillations, retention deletions, notified mtimes
    budget,       \* counters bounding the run: cycles, faults, appends, calls
    call,         \* SpecArch: the last two pipeline calls and their outcomes
    fnIn,         \* SpecEval: the drawn inputs of the pure function
    fnOut         \* SpecEval: its result

vars == <<now, sessions, inbox, files, ledger, ledgerTorn, chanMap, chanMapTorn,
          stateFile, memoryLog, cfg, pc, st, cyc, trace, hist, budget, call,
          fnIn, fnOut>>

(***************************************************************************)
(* Bounds of the model.                                                    *)
(***************************************************************************)
MaxCycles == 2
MaxFaults == 1
MaxAppends == 1
MaxCalls == 2
MaxEpoch == 1

(***************************************************************************)
(* Option<T>: None is the empty sequence, Some(v) the one-element one.     *)
(***************************************************************************)
None == <<>>
Some(v) == <<v>>
IsSome(o) == o # <<>>
Unwrap(o) == o[1]

Max2(a, b) == IF a >= b THEN a ELSE b

\* u64::saturating_sub
saturating_sub(a, b) == IF a >= b THEN a - b ELSE 0

\* saturating_mul, for the values of the model (far below 2^64)
saturating_mul(a, b) == a * b

(***************************************************************************)
(* Ratios are f64 in the code; the model keeps them exact as <<num, den>>  *)
(* with den > 0 and compares by cross-multiplication.                      *)
(***************************************************************************)
RatioGE(a, b) == a[1] * b[2] >= b[1] * a[2]

\* session_usage.rs: to_snapshot replaces max_tokens = 0 by 1, then used / max
usage_ratio(used, max) == IF max = 0 THEN <<0, 1>> ELSE <<used, max>>

to_snapshot(session_id, used_tokens, max_tokens, at) ==
    LET max == IF max_tokens = 0 THEN 1 ELSE max_tokens
    IN  [session_id |-> session_id,
         used_tokens |-> used_tokens,
         max_tokens |-> max,
         usage_ratio |-> usage_ratio(used_tokens, max),
         captured_at_epoch_secs |-> at,
         provider |-> "openclaw"]

(***************************************************************************)
(* thresholds.rs: the trigger evaluator.                                   *)
(***************************************************************************)
unified_layer1_last_trigger_min(state) ==
    LET a == state.last_archive_trigger_epoch_secs
        b == state.last_compaction_trigger_epoch_secs
    IN  IF IsSome(a) /\ IsSome(b)
        THEN Some(IF Unwrap(a) <= Unwrap(b) THEN Unwrap(a) ELSE Unwrap(b))
        ELSE IF IsSome(a) THEN a ELSE b

unified_layer1_last_trigger(state) ==
    LET a == state.last_archive_trigger_epoch_secs
        b == state.last_compaction_trigger_epoch_secs
    IN  IF IsSome(a) /\ IsSome(b) THEN Some(Max2(Unwrap(a), Unwrap(b)))
        ELSE IF IsSome(a) THEN a
        ELSE IF IsSome(b) THEN b
        ELSE None

should_fire(last_epoch, now_epoch, cooldown_secs) ==
    IF ~IsSome(last_epoch) THEN TRUE
    ELSE saturating_sub(now_epoch, Unwrap(last_epoch)) >= cooldown_secs

evaluate(config, state, usage) ==
    IF /\ RatioGE(usage.usage_ratio, config.trigger_ratio)
       /\ should_fire(unified_layer1_last_trigger(state),
                      usage.captured_at_epoch_secs,
                      config.cooldown_secs)
    THEN <<"Archive", "Compaction">>
    ELSE <<>>

\* watcher.rs: the per-phase cooldown test of run_once
is_cooldown_ready(last_epoch, now_epoch, cooldown_secs) ==
    IF ~IsSome(last_epoch) THEN TRUE
    ELSE saturating_sub(now_epoch, Unwrap(last_epoch)) >= cooldown_secs

(***************************************************************************)
(* Paths.  A file below the archives dir is [dir, name, ext]: dir is "raw" *)
(* or "mlib" (the current layout), "flat" (directly under archives/, the   *)
(* legacy layout) or "lib" (the legacy projection dir); name is the file   *)
(* stem <<slug, stamp>>.  A transcript is [stem, ext] in the sessions dir, *)
(* its stem a sequence of characters.                                      *)
(***************************************************************************)
SrcA == [stem |-> <<"S", "_", "a">>, ext |-> "jsonl"]
SrcB == [stem |-> <<"s", "b">>, ext |-> "json"]
Sources == {SrcA, SrcB}

AlphaNumeric == {"a", "b", "s", "S", "1"}

\* char::to_ascii_lowercase on the characters of the model
to_ascii_lowercase(ch) == IF ch = "S" THEN "s" ELSE ch

\* str::trim_matches('-')
RECURSIVE trim_start_dash(_)
trim_start_dash(s) ==
    IF s # <<>> /\ Head(s) = "-" THEN trim_start_dash(Tail(s)) ELSE s

RECURSIVE trim_end_dash(_)
trim_end_dash(s) ==
    IF s # <<>> /\ s[Len(s)] = "-"
    THEN trim_end_dash(SubSeq(s, 1, Len(s) - 1))
    ELSE s

\* snapshot.rs: the loop of sanitize_slug, from character i on
RECURSIVE slug_scan(_, _, _, _)
slug_scan(input, i, out, prev_dash) ==
    IF i > Len(input) THEN out
    ELSE IF input[i] \in AlphaNumeric
         THEN slug_scan(input, i + 1, Append(out, to_ascii_lowercase(input[i])), FALSE)
         ELSE IF ~prev_dash
              THEN slug_scan(input, i + 1, Append(out, "-"), TRUE)
              ELSE slug_scan(input, i + 1, out, prev_dash)

sanitize_slug(input) == trim_end_dash(trim_start_dash(slug_scan(input, 1, <<>>, FALSE)))

\* snapshot.rs write_snapshot: raw/<slug>-<stamp>.<ext>, "snapshot" for an empty slug
snapshot_path(source, stamp) ==
    LET slug == sanitize_slug(source.stem)
    IN  [dir |-> "raw",
         name |-> <<IF slug = <<>> THEN <<"snapshot">> ELSE slug, stamp>>,
         ext |-> source.ext]

\* archive.rs l. 65-78, as the layout before the migration had it: the
\* projection is the sibling <stem>.md of the archive
projection_path_sibling(archive_path) == [archive_path EXCEPT !.ext = "md"]

\* archive.rs: where the projection of an archive lives
projection_path_for_archive_path(archive_path) ==
    IF archive_path.dir = "raw"
    THEN [dir |-> "mlib", name |-> archive_path.name, ext |-> "md"]
    ELSE [archive_path EXCEPT !.ext = "md"]

\* archive.rs file_hash: SHA-256 of the bytes, injective on the model's bytes
file_hash(bytes) == <<"sha256", bytes>>

Exists(fl, path) == path \in DOMAIN fl

\* fs::write(path, bytes) that succeeded
WriteFile(fl, path, bytes) ==
    [p \in (DOMAIN fl) \cup {path} |-> IF p = path THEN bytes ELSE fl[p]]

RemoveFiles(fl, paths) == [p \in (DOMAIN fl) \ paths |-> fl[p]]

\* the bytes of the Markdown projection of an archive
ProjectionBytes(content_hash) == <<"md", content_hash>>

(***************************************************************************)
(* archive.rs read_ledger: Err when a line does not parse.                 *)
(***************************************************************************)
ReadLedgerOk(torn) == ~torn

RECURSIVE FindRecord(_, _, _)
\* existing.iter().find(..): the first record with this hash and source
FindRecord(lg, source_hash, source) ==
    IF lg = <<>> THEN None
    ELSE IF Head(lg).content_hash = source_hash /\ Head(lg).source_path = source
         THEN Some(Head(lg))
         ELSE FindRecord(Tail(lg), source_hash, source)

\* the dedup lookup of archive_and_index, as a bug would have it: only the last
\* line of the ledger is compared
DedupLookupLastOnly(lg, source_hash, source) ==
    IF lg = <<>> THEN None
    ELSE FindRecord(<<lg[Len(lg)]>>, source_hash, source)

\* the dedup lookup of archive_and_index, as a bug would have it: never found
DedupLookupNever(lg, source_hash, source) == None

DedupLookup(lg, source_hash, source) == FindRecord(lg, source_hash, source)

PipelineFaults == {"none", "pre", "snapshot", "projection", "index", "append"}

\* archive.rs l. 958-962, as a bug would have it: a failed projection is
\* forgotten once the indexer answers
indexed_after_index_only(projection_path, index_ok) == index_ok

\* archive.rs l. 958-962, as a bug would have it: the Err of the indexer is
\* only logged
indexed_after_projection_only(projection_path, index_ok) == IsSome(projection_path)

\* archive.rs l. 958-962: indexed starts as projection_path.is_some() and is
\* cleared when qmd::collection_add_or_update fails
indexed_after(projection_path, index_ok) == IsSome(projection_path) /\ index_ok

(***************************************************************************)
(* archive.rs archive_and_index(paths, source, "history").                 *)
(*   fl, lg, torn  the archives dir and the ledger before the call         *)
(*   hashBytes     the bytes of the source when it is hashed (l. 912)      *)
(*   snapBytes     its bytes when write_snapshot reads it again (l. 926)   *)
(*   t             the clock (the stamp of the file name, created_at)      *)
(*   fault         which step fails, of PipelineFaults                     *)
(* The result: ok (Ok or Err), deduped, record, and the files and ledger   *)
(* after the call, with the effects in program order.                      *)
(***************************************************************************)
archive_and_index(fl, lg, torn, source, hashBytes, snapBytes, t, fault) ==
    LET source_hash == file_hash(hashBytes)
        found == DedupLookup(lg, source_hash, source)
        archive_path == snapshot_path(source, t)
        fl1 == WriteFile(fl, archive_path, snapBytes)
        archive_hash == file_hash(fl1[archive_path])
        projOk == fault # "projection"
        projection_path == IF projOk
                           THEN Some(projection_path_for_archive_path(archive_path))
                           ELSE None
        fl2 == IF projOk
               THEN WriteFile(fl1, Unwrap(projection_path), ProjectionBytes(archive_hash))
               ELSE fl1
        indexed == indexed_after(projection_path, fault # "index")
        record == [session_id |-> source.stem,
                   source_path |-> source,
                   archive_path |-> archive_path,
                   projection_path |-> projection_path,
                   content_hash |-> archive_hash,
                   created_at_epoch_secs |-> t,
                   indexed_collection |-> "history",
                   indexed |-> indexed]
        failed(f, evs) == [ok |-> FALSE, deduped |-> FALSE, record |-> None,
                           files |-> f, ledger |-> lg, events |-> evs]
    IN  IF fault = "pre" \/ ~ReadLedgerOk(torn) THEN failed(fl, <<>>)
        ELSE IF IsSome(found)
        THEN [ok |-> TRUE, deduped |-> TRUE, record |-> found,
              files |-> fl, ledger |-> lg, events |-> <<>>]
        ELSE IF fault = "snapshot" THEN failed(fl, <<>>)
        ELSE IF fault = "append"
        THEN failed(fl2, <<"snapshot">> \o (IF projOk THEN <<"projection">> ELSE <<>>)
                         \o <<"index">>)
        ELSE [ok |-> TRUE, deduped |-> FALSE, record |-> Some(record),
              files |-> fl2, ledger |-> Append(lg, record),
              events |-> <<"snapshot">> \o (IF projOk THEN <<"projection">> ELSE <<>>)
                         \o <<"index", "ledger_append">>]

\* archive.rs remove_ledger_records: the records kept
RECURSIVE KeepRecords(_, _)
KeepRecords(lg, archive_paths) ==
    IF lg = <<>> THEN <<>>
    ELSE IF Head(lg).archive_path \in archive_paths
         THEN KeepRecords(Tail(lg), archive_paths)
         ELSE <<Head(lg)>> \o KeepRecords(Tail(lg), archive_paths)

LedgerPaths(lg) == {lg[i].archive_path : i \in 1..Len(lg)}

(***************************************************************************)
(* Session keys are colon-separated; the model keeps the segments.         *)
(***************************************************************************)
KeyDiscord == <<"agent", "main", "discord", "channel", "1">>
KeyWhatsapp == <<"agent", "main", "whatsapp", "+614">>
KeyMain == <<"agent", "main", "main">>
Keys == {KeyDiscord, KeyWhatsapp, KeyMain}
NoKey == <<>>

\* watcher.rs: contains(":discord:channel:") || contains(":whatsapp:"); a colon
\* on both sides means a segment before and a segment after
is_compaction_channel_session(session_id) ==
    \/ \E i \in 2..(Len(session_id) - 2) :
          session_id[i] = "discord" /\ session_id[i + 1] = "channel"
    \/ \E i \in 2..(Len(session_id) - 1) : session_id[i] = "whatsapp"

\* the host agent's sessions.json: channel key -> sessionId
SessionStore ==
    (KeyDiscord :> SrcA.stem) @@ (KeyWhatsapp :> SrcB.stem)

\* watcher.rs resolve_session_file_from_id: <id>.jsonl, else <id>.json
resolve_session_file_from_id(sess, session_id) ==
    IF [stem |-> session_id, ext |-> "jsonl"] \in DOMAIN sess
    THEN Some([stem |-> session_id, ext |-> "jsonl"])
    ELSE IF [stem |-> session_id, ext |-> "json"] \in DOMAIN sess
         THEN Some([stem |-> session_id, ext |-> "json"])
         ELSE None

\* watcher.rs load_session_source_map: the keys whose transcript resolves
load_session_source_map(sess) ==
    LET ok == {k \in DOMAIN SessionStore :
                  IsSome(resolve_session_file_from_id(sess, SessionStore[k]))}
    IN  [k \in ok |-> Unwrap(resolve_session_file_from_id(sess, SessionStore[k]))]

\* snapshot.rs latest_session_file: the candidates with the greatest mtime (the
\* directory order decides among equal mtimes)
latest_session_files(sess) ==
    {s \in DOMAIN sess :
        /\ s.ext \in {"jsonl", "json"}
        /\ \A o \in DOMAIN sess : sess[o].mtime <= sess[s].mtime}

(***************************************************************************)
(* The effective configuration (config.rs defaults; distill.mode and the   *)
(* retention grace are set by the environment overlay).                    *)
(***************************************************************************)
DefaultConfig ==
    [trigger_ratio |-> <<85, 100>>,
     compaction_ratio |-> <<85, 100>>,
     poll_interval_secs |-> 30,
     cooldown_secs |-> 300,
     inbound_enabled |-> TRUE,
     distill_mode |-> "manual",
     idle_secs |-> 360,
     max_per_cycle |-> 1,
     archive_grace_hours |-> 1]

Configs == {[DefaultConfig EXCEPT !.distill_mode = m] : m \in {"manual", "idle"}}

\* seconds the watcher sleeps or stays down between two cycles
Elapsed == {0, 3600}

\* the context window of a session, in tokens
ContextTokens == 100

(***************************************************************************)
(* state.rs: the persisted watcher state.                                  *)
(***************************************************************************)
DefaultState ==
    [schema_version |-> 1,
     last_heartbeat_epoch_secs |-> 0,
     last_archive_trigger_epoch_secs |-> None,
     last_compaction_trigger_epoch_secs |-> None,
     last_distill_trigger_epoch_secs |-> None,
     last_session_id |-> None,
     last_usage_ratio |-> None,
     last_provider |-> None,
     distilled_archives |-> <<>>,
     inbound_seen_files |-> <<>>]

\* the state file on disk: absent, unparsable, or the JSON of a state
NoFile == [status |-> "absent", state |-> DefaultState]
TornFile == [status |-> "torn", state |-> DefaultState]
WholeFile(state) == [status |-> "whole", state |-> state]

\* state.rs load: Err when the file does not parse, the default when it is absent
LoadOk(file) == file.status # "torn"
LoadState(file) == IF file.status = "absent" THEN DefaultState ELSE file.state

\* watcher.rs l. 195-198
StampState(state, usage) ==
    [state EXCEPT !.last_heartbeat_epoch_secs = usage.captured_at_epoch_secs,
                  !.last_session_id = Some(usage.session_id),
                  !.last_usage_ratio = Some(usage.usage_ratio),
                  !.last_provider = Some(usage.provider)]

\* BTreeMap insert and remove on functions
MapInsert(m, k, v) == [x \in (DOMAIN m) \cup {k} |-> IF x = k THEN v ELSE m[x]]
MapRemove(m, ks) == [x \in (DOMAIN m) \ ks |-> m[x]]

InboxFile == "task.md"

(***************************************************************************)
(* The side effects of a cycle, in program order.  step is the step of     *)
(* run_once that made it; an audit event carries its phase and status.     *)
(***************************************************************************)
Effect(step, kind, key) ==
    [step |-> step, kind |-> kind, phase |-> "", status |-> "", key |-> key]

Audit(step, phase, status, key) ==
    [step |-> step, kind |-> "audit", phase |-> phase, status |-> status, key |-> key]

RECURSIVE Effects(_, _, _)
Effects(step, kinds, key) ==
    IF kinds = <<>> THEN <<>>
    ELSE <<Effect(step, Head(kinds), key)>> \o Effects(step, Tail(kinds), key)

EmptyCycle ==
    [usage |-> None,
     triggers |-> <<>>,
     inbound |-> [detected |-> 0, triggered |-> 0, failed |-> 0],
     targets |-> <<>>,
     notes |-> <<>>,
     source_map |-> <<>>,
     cooldown_ready |-> TRUE,
     next_target |-> 1,
     outcomes |-> <<>>,
     candidates |-> <<>>,
     load |-> <<>>,
     faults0 |-> 0,
     abort_at |-> ""]

CanFail == budget.faults < MaxFaults
Spend(n) == [budget EXCEPT !.faults = @ + n]

\* the cycle ends with Err at step `at`: nothing after it runs
Abort(at) ==
    /\ pc' = "aborted"
    /\ cyc' = [cyc EXCEPT !.abort_at = at]

\* the transcripts when the watcher starts: SrcA is the one written last
InitSessions ==
    (SrcA :> [bytes |-> 1, mtime |-> 1]) @@ (SrcB :> [bytes |-> 1, mtime |-> 0])

\* what a first cycle leaves behind when the main session was over the
\* trigger ratio at time 1: the archive of SrcA, its ledger line, the saved state
FirstArchive == archive_and_index(<<>>, <<>>, FALSE, SrcA, 1, 1, 1, "none")

FirstState ==
    [StampState(DefaultState, to_snapshot(KeyMain, 90, ContextTokens, 1)) EXCEPT
        !.last_archive_trigger_epoch_secs = Some(1),
        !.inbound_seen_files = (InboxFile :> 1)]

\* the watcher starts on a fresh home, or is restarted after that first cycle
Init ==
    /\ now = 1
    /\ sessions = InitSessions
    /\ inbox = 1
    /\ \E restarted \in BOOLEAN :
          /\ files = IF restarted THEN FirstArchive.files ELSE <<>>
          /\ ledger = IF restarted THEN FirstArchive.ledger ELSE <<>>
          /\ stateFile = IF restarted THEN WholeFile(FirstState) ELSE NoFile
          /\ hist = [distilled |-> {}, deleted |-> {}, index_ok |-> {},
                      notified |-> IF restarted THEN {1} ELSE {},
                      triggered |-> IF restarted THEN <<1>> ELSE <<>>]
    /\ ledgerTorn = FALSE
    /\ chanMap = <<>>
    /\ chanMapTorn = FALSE
    /\ memoryLog = <<>>
    /\ cfg \in Configs
    /\ pc = "idle"
    /\ st = DefaultState
    /\ cyc = EmptyCycle
    /\ trace = <<>>
    /\ budget = [cycles |-> 0, faults |-> 0, appends |-> 0, calls |-> 0]
    /\ call = <<>>
    /\ fnIn = <<>>
    /\ fnOut = <<>>

(***************************************************************************)
(* run_once, watcher.rs l. 188-191: resolve paths, load the config and the *)
(* persisted state.  The clock has advanced by d since the last cycle.     *)
(***************************************************************************)
Begin ==
    /\ pc \in {"idle", "done", "aborted"}
    /\ budget.cycles < MaxCycles
    /\ \E d \in Elapsed : now' = now + d
    /\ trace' = <<>>
    /\ \E fault \in {"none", "config"} :
          /\ fault # "none" => CanFail
          /\ budget' = [budget EXCEPT !.cycles = @ + 1,
                                      !.faults = @ + (IF fault = "none" THEN 0 ELSE 1)]
          /\ IF fault = "config"
             THEN /\ pc' = "aborted"
                  /\ cyc' = [EmptyCycle EXCEPT !.abort_at = "config"]
                  /\ st' = DefaultState
             ELSE IF ~LoadOk(stateFile)
             THEN /\ pc' = "aborted"
                  /\ cyc' = [EmptyCycle EXCEPT !.abort_at = "state_load"]
                  /\ st' = DefaultState
             ELSE /\ pc' = "inbound"
                  /\ cyc' = [EmptyCycle EXCEPT !.faults0 = budget.faults]
                  /\ st' = LoadState(stateFile)
    /\ UNCHANGED <<sessions, inbox, files, ledger, ledgerTorn, chanMap, chanMapTorn,
                   stateFile, memoryLog, cfg, hist, call, fnIn, fnOut>>

(***************************************************************************)
(* inbound_watch.rs process, called at watcher.rs l. 192.                  *)
(***************************************************************************)
InboundWatch ==
    /\ pc = "inbound"
    /\ \E fault \in {"none", "fs", "event"} :
          /\ fault # "none" => CanFail
          /\ fault = "event" =>
                inbox > 0 /\ cfg.inbound_enabled
                /\ inbox > (IF InboxFile \in DOMAIN st.inbound_seen_files
                            THEN st.inbound_seen_files[InboxFile] ELSE 0)
          /\ fault = "fs" => cfg.inbound_enabled
          /\ budget' = Spend(IF fault = "none" THEN 0 ELSE 1)
          /\ IF fault = "fs"
             THEN /\ Abort("inbound")
                  /\ UNCHANGED <<st, trace, hist>>
             ELSE LET previous == IF InboxFile \in DOMAIN st.inbound_seen_files
                                  THEN st.inbound_seen_files[InboxFile] ELSE 0
                      present == cfg.inbound_enabled /\ inbox > 0
                      detected == present /\ ~(inbox <= previous)
                      sent == detected /\ fault # "event"
                      seen1 == IF sent
                               THEN MapInsert(st.inbound_seen_files, InboxFile, inbox)
                               ELSE st.inbound_seen_files
                      seen2 == IF ~cfg.inbound_enabled THEN seen1
                               ELSE IF inbox > 0 THEN seen1
                               ELSE MapRemove(seen1, {InboxFile})
                  IN  /\ st' = [st EXCEPT !.inbound_seen_files = seen2]
                      /\ trace' = IF sent
                                  THEN Append(trace, Effect("inbound", "system_event", NoKey))
                                  ELSE trace
                      /\ cyc' = [cyc EXCEPT
                                   !.inbound = [detected |-> IF detected THEN 1 ELSE 0,
                                                triggered |-> IF sent THEN 1 ELSE 0,
                                                failed |-> IF detected /\ ~sent THEN 1 ELSE 0]]
                      /\ hist' = IF sent THEN [hist EXCEPT !.notified = @ \cup {inbox}]
                                  ELSE hist
                      /\ pc' = "usage"
    /\ UNCHANGED <<now, sessions, inbox, files, ledger, ledgerTorn, chanMap,
                   chanMapTorn, stateFile, memoryLog, cfg, call, fnIn, fnOut>>

(***************************************************************************)
(* watcher.rs l. 194-286: sample the usage, stamp the state, evaluate the  *)
(* triggers, pick the compaction targets, write the two opening audit rows.*)
(***************************************************************************)
KeyOrder == <<KeyDiscord, KeyWhatsapp, KeyMain>>

\* the filter of l. 228-231 and of the fallback of l. 236-237
IsCompactionTarget(config, session_id, used) ==
    /\ is_compaction_channel_session(session_id)
    /\ RatioGE(usage_ratio(used, ContextTokens), config.compaction_ratio)

ScanTargets(config, load) ==
    SelectSeq(KeyOrder, LAMBDA k : IsCompactionTarget(config, k, load[k]))

\* what the agent reports in one cycle: the most recently updated session, and
\* the tokens used by every session
Quiet == [k \in Keys |-> 10]
Busy == [k \in Keys |-> 90]
Scenes ==
    {[session |-> KeyMain, load |-> Quiet],
     [session |-> KeyMain, load |-> [Quiet EXCEPT ![KeyMain] = 90]],
     [session |-> KeyDiscord, load |-> Busy]}

Sample ==
    /\ pc = "usage"
    /\ \E fault \in {"none", "usage", "scan", "source_map", "audit"},
          scene \in Scenes :
          LET load == scene.load
              sid == scene.session
              usage == to_snapshot(sid, load[sid], ContextTokens, now)
              st1 == StampState(st, usage)
              triggers == evaluate(cfg, st1, usage)
              ready == is_cooldown_ready(st1.last_compaction_trigger_epoch_secs,
                                         usage.captured_at_epoch_secs, cfg.cooldown_secs)
              targets == IF fault # "scan" THEN ScanTargets(cfg, load)
                         ELSE IF IsCompactionTarget(cfg, sid, load[sid])
                              THEN <<sid>> ELSE <<>>
              source_map == IF targets # <<>> /\ fault # "source_map"
                            THEN load_session_source_map(sessions) ELSE <<>>
              notes == (IF fault = "scan" THEN <<"scan failed">> ELSE <<>>)
                       \o (IF fault = "source_map" THEN <<"source_map failed">> ELSE <<>>)
              rows == (IF triggers # <<>>
                       THEN <<Audit("usage", "watcher", "triggered", NoKey)>> ELSE <<>>)
                      \o (IF cyc.inbound.detected > 0 \/ cyc.inbound.failed > 0
                          THEN <<Audit("usage", "inbound_watch",
                                       IF cyc.inbound.failed = 0 THEN "ok" ELSE "degraded",
                                       NoKey)>>
                          ELSE <<>>)
              c1 == [cyc EXCEPT !.usage = Some(usage), !.triggers = triggers,
                                !.load = load,
                                !.targets = targets, !.notes = notes,
                                !.source_map = source_map, !.cooldown_ready = ready]
          IN  /\ fault # "none" => CanFail
              /\ fault = "source_map" => targets # <<>>
              /\ fault = "audit" => rows # <<>>
              /\ budget' = Spend(IF fault = "none" THEN 0 ELSE 1)
              /\ IF fault = "usage"
                 THEN /\ pc' = "aborted"
                      /\ cyc' = [cyc EXCEPT !.abort_at = "usage"]
                      /\ UNCHANGED <<st, trace>>
                 ELSE IF fault = "audit"
                 THEN /\ pc' = "aborted"
                      /\ cyc' = [c1 EXCEPT !.abort_at = "audit"]
                      /\ st' = st1
                      /\ UNCHANGED trace
                 ELSE /\ pc' = "archive"
                      /\ cyc' = c1
                      /\ st' = st1
                      /\ trace' = trace \o rows
              /\ hist' = IF fault # "usage" /\ triggers # <<>>
                         THEN [hist EXCEPT !.triggered =
                                  Append(@, usage.captured_at_epoch_secs)]
                         ELSE hist
    /\ UNCHANGED <<now, sessions, inbox, files, ledger, ledgerTorn, chanMap,
                   chanMapTorn, stateFile, memoryLog, cfg, call, fnIn, fnOut>>

(***************************************************************************)
(* watcher.rs l. 288-304 with run_archive_if_needed (l. 47-64).            *)
(***************************************************************************)
CapturedAt == Unwrap(cyc.usage).captured_at_epoch_secs

\* a fault of the pipeline is spent only where the pipeline gets that far
PipelineFaultApplies(lg, torn, source, bytes, fault) ==
    \/ fault = "none"
    \/ ~torn /\ fault = "pre"
    \/ ~torn /\ fault \notin {"none", "pre"} /\ ~IsSome(DedupLookup(lg, file_hash(bytes), source))

ArchiveStep ==
    /\ pc = "archive"
    /\ IF "Archive" \notin {cyc.triggers[i] : i \in 1..Len(cyc.triggers)}
       THEN /\ pc' = "compaction"
            /\ UNCHANGED <<files, ledger, st, cyc, trace, budget>>
       ELSE \E fault \in PipelineFaults \cup {"latest", "audit"},
               source \in latest_session_files(sessions) :
               LET pfault == IF fault \in PipelineFaults THEN fault ELSE "none"
                   r == archive_and_index(files, ledger, ledgerTorn, source,
                                          sessions[source].bytes, sessions[source].bytes,
                                          now, pfault)
                   row == Audit("archive", "archive",
                                IF Unwrap(r.record).indexed THEN "ok" ELSE "degraded",
                                NoKey)
                   effects == Effects("archive", r.events, NoKey)
               IN  /\ fault # "none" => CanFail
                   /\ PipelineFaultApplies(ledger, ledgerTorn, source,
                                           sessions[source].bytes, pfault)
                   /\ fault = "audit" => r.ok
                   /\ budget' = Spend(IF fault = "none" THEN 0 ELSE 1)
                   /\ IF fault = "latest"
                      THEN /\ pc' = "aborted"
                           /\ cyc' = [cyc EXCEPT !.abort_at = "archive"]
                           /\ UNCHANGED <<files, ledger, st, trace>>
                      ELSE IF ~r.ok
                      THEN /\ pc' = "aborted"
                           /\ cyc' = [cyc EXCEPT !.abort_at = "archive"]
                           /\ files' = r.files
                           /\ trace' = trace \o effects
                           /\ UNCHANGED <<ledger, st>>
                      ELSE /\ files' = r.files
                           /\ ledger' = r.ledger
                           /\ st' = [st EXCEPT !.last_archive_trigger_epoch_secs =
                                                  Some(CapturedAt)]
                           /\ IF fault = "audit"
                              THEN /\ pc' = "aborted"
                                   /\ cyc' = [cyc EXCEPT !.abort_at = "audit"]
                                   /\ trace' = trace \o effects
                              ELSE /\ pc' = "compaction"
                                   /\ cyc' = cyc
                                   /\ trace' = trace \o effects \o <<row>>
    /\ UNCHANGED <<now, sessions, inbox, ledgerTorn, chanMap, chanMapTorn,
                   stateFile, memoryLog, cfg, hist, call, fnIn, fnOut>>

(***************************************************************************)
(* watcher.rs l. 306-467: the compaction step.  One action per target of   *)
(* the loop of l. 324-442, one for the row that closes the step.           *)
(***************************************************************************)
\* watcher.rs l. 364: a record that is not indexed stops the target here
index_failed_never(record) == FALSE

index_failed(record) == ~record.indexed

\* channel_archive_map.rs upsert: the record inserted under the channel key
ChannelRecord(channel_key, source_path, archive_path, t) ==
    [channel_key |-> channel_key, source_path |-> source_path,
     archive_path |-> archive_path, updated_at_epoch_secs |-> t]

Outcome(key, result) == [key |-> key, result |-> result]

\* watcher.rs l. 346-362, as a bug would have it: the archive row of a target
\* is not written
pre_compaction_audit_missing(record, K) == <<>>

\* watcher.rs l. 346-362: the archive row of a target, "scope=pre-compaction key=K"
pre_compaction_audit(record, K) ==
    <<Audit("compaction", "archive", IF record.indexed THEN "ok" ELSE "degraded", K)>>

\* the answers of the gateway to chat.send /compact: the status, the runId
\* and the ok member of the JSON it prints (None when ok is absent)
CompactResponses ==
    [status : {"started", "unknown"}, runId : {"", "run-1"},
     ok : {None, Some(TRUE), Some(FALSE)}]

\* gateway.rs run_sessions_compact, l. 148-180: TRUE when it returns Ok
run_sessions_compact(response) ==
    \/ response.status = "started" /\ response.runId # ""
    \/ IsSome(response.ok) /\ Unwrap(response.ok)

\* the answer drawn when the RPC is not reached
StartedResponse == [status |-> "started", runId |-> "run-1", ok |-> None]

\* watcher.rs l. 315, as a bug would have it: the trigger time is not kept
record_compaction_trigger_never(state, captured_at) == state

\* watcher.rs l. 315: the compaction branch stamps the trigger time before
\* it handles the first target
record_compaction_trigger(state, captured_at) ==
    [state EXCEPT !.last_compaction_trigger_epoch_secs = Some(captured_at)]

CompactionLoop ==
    /\ cyc.targets # <<>>
    /\ cyc.cooldown_ready
    /\ cyc.next_target <= Len(cyc.targets)

CompactTarget ==
    /\ pc = "compaction"
    /\ CompactionLoop
    /\ \E fault \in PipelineFaults \cup {"map_err", "map_torn", "rpc", "audit1", "audit2"},
          response \in CompactResponses :
          LET K == cyc.targets[cyc.next_target]
              found == K \in DOMAIN cyc.source_map
              source == IF found THEN cyc.source_map[K] ELSE SrcA
              pfault == IF fault \in PipelineFaults THEN fault ELSE "none"
              r == archive_and_index(files, ledger, ledgerTorn, source,
                                     sessions[source].bytes, sessions[source].bytes,
                                     now, pfault)
              archived == found /\ r.ok
              rec == Unwrap(r.record)
              gated == archived /\ ~index_failed(rec)
              mapped == gated /\ ~chanMapTorn /\ fault \notin {"map_err", "map_torn"}
              sent == mapped /\ run_sessions_compact(response)
              result == IF ~found THEN "archive-source-not-found"
                        ELSE IF ~r.ok THEN "archive-failed"
                        ELSE IF ~gated THEN "index-failed"
                        ELSE IF ~mapped THEN "channel-archive-map-failed"
                        ELSE IF ~sent THEN "failed"
                        ELSE "ok"
              aborts == (fault = "audit1" /\ archived) \/ (fault = "audit2" /\ mapped)
              events ==
                  (IF found THEN Effects("compaction", r.events, K) ELSE <<>>)
                  \o (IF archived
                      THEN <<[Effect("compaction", "archive_result", K) EXCEPT
                                 !.status = IF rec.indexed THEN "indexed" ELSE "not_indexed"]>>
                      ELSE <<>>)
                  \o (IF archived /\ fault # "audit1"
                      THEN pre_compaction_audit(rec, K) ELSE <<>>)
                  \o (IF mapped /\ fault # "audit1"
                      THEN <<Effect("compaction", "map_upsert", K)>> ELSE <<>>)
                  \o (IF sent /\ fault # "audit1"
                      THEN <<Effect("compaction", "rpc", K)>> ELSE <<>>)
                  \o (IF mapped /\ fault \notin {"audit1", "audit2"}
                      THEN <<Audit("compaction", "compaction",
                                   IF sent THEN "ok" ELSE "degraded", K)>>
                      ELSE <<>>)
              stop == fault = "audit1" /\ archived
          IN  /\ fault # "none" => CanFail
              /\ fault # "none" => found
              /\ PipelineFaultApplies(ledger, ledgerTorn, source,
                                      sessions[source].bytes, pfault)
              /\ fault \in {"map_err", "map_torn"} => gated /\ ~chanMapTorn
              /\ (fault = "rpc") = (mapped /\ ~run_sessions_compact(response))
              /\ ~mapped => response = StartedResponse
              /\ fault = "audit1" => archived
              /\ fault = "audit2" => mapped
              /\ budget' = Spend(IF fault = "none" THEN 0 ELSE 1)
              /\ files' = IF found THEN r.files ELSE files
              /\ ledger' = IF archived THEN r.ledger ELSE ledger
              /\ chanMap' = IF mapped /\ ~stop
                            THEN MapInsert(chanMap, K,
                                           ChannelRecord(K, rec.source_path,
                                                         rec.archive_path, now))
                            ELSE chanMap
              /\ chanMapTorn' = (chanMapTorn \/ (fault = "map_torn"))
              /\ st' = record_compaction_trigger(st, CapturedAt)
              /\ trace' = trace \o events
              /\ IF aborts
                 THEN /\ pc' = "aborted"
                      /\ cyc' = [cyc EXCEPT !.abort_at = "audit"]
                 ELSE /\ pc' = "compaction"
                      /\ cyc' = [cyc EXCEPT !.next_target = @ + 1,
                                            !.outcomes = Append(@, Outcome(K, result))]
    /\ UNCHANGED <<now, sessions, inbox, ledgerTorn, stateFile, memoryLog, cfg,
                   hist, call, fnIn, fnOut>>

\* watcher.rs l. 306-313, 444-467: the row that closes the compaction step
CompactionRow ==
    IF cyc.targets # <<>> /\ ~cyc.cooldown_ready
    THEN <<Audit("compaction", "compaction", "skipped", NoKey)>>
    ELSE IF cyc.targets # <<>>
    THEN <<Audit("compaction", "compaction",
                 IF \E i \in 1..Len(cyc.outcomes) : cyc.outcomes[i].result # "ok"
                 THEN "degraded" ELSE "ok",
                 NoKey)>>
    ELSE IF cyc.notes # <<>>
    THEN <<Audit("compaction", "compaction", "degraded", NoKey)>>
    ELSE <<>>

CompactionClose ==
    /\ pc = "compaction"
    /\ ~CompactionLoop
    /\ \E fault \in {"none", "audit"} :
          /\ fault # "none" => CanFail /\ CompactionRow # <<>>
          /\ budget' = Spend(IF fault = "none" THEN 0 ELSE 1)
          /\ IF fault = "audit"
             THEN /\ pc' = "aborted"
                  /\ cyc' = [cyc EXCEPT !.abort_at = "audit"]
                  /\ UNCHANGED trace
             ELSE /\ pc' = "distill"
                  /\ cyc' = cyc
                  /\ trace' = trace \o CompactionRow
    /\ UNCHANGED <<now, sessions, inbox, files, ledger, ledgerTorn, chanMap,
                   chanMapTorn, stateFile, memoryLog, cfg, st, hist, call, fnIn, fnOut>>

(***************************************************************************)
(* watcher.rs l. 469-585: idle distillation.                               *)
(***************************************************************************)
RECURSIVE InsertByCreated(_, _)
InsertByCreated(sorted, r) ==
    IF sorted = <<>> THEN <<r>>
    ELSE IF Head(sorted).created_at_epoch_secs <= r.created_at_epoch_secs
         THEN <<Head(sorted)>> \o InsertByCreated(Tail(sorted), r)
         ELSE <<r>> \o sorted

RECURSIVE SortByCreated(_)
\* ledger.sort_by_key(|r| r.created_at_epoch_secs), a stable sort
SortByCreated(lg) ==
    IF lg = <<>> THEN <<>>
    ELSE InsertByCreated(SortByCreated(SubSeq(lg, 1, Len(lg) - 1)), lg[Len(lg)])

RECURSIVE MaxCreated(_)
MaxCreated(lg) ==
    IF lg = <<>> THEN 0 ELSE Max2(Head(lg).created_at_epoch_secs, MaxCreated(Tail(lg)))

RECURSIVE TakeCandidatesUnbounded(_, _, _, _, _)
\* the loop of l. 505-519, as a bug would have it: without the break of l. 516-518
TakeCandidatesUnbounded(lg, state, fl, max, out) ==
    IF lg = <<>> THEN out
    ELSE IF ~Head(lg).indexed
            \/ Head(lg).archive_path \in DOMAIN state.distilled_archives
            \/ ~Exists(fl, Head(lg).archive_path)
         THEN TakeCandidatesUnbounded(Tail(lg), state, fl, max, out)
         ELSE TakeCandidatesUnbounded(Tail(lg), state, fl, max, Append(out, Head(lg)))

RECURSIVE TakeCandidates(_, _, _, _, _)
\* the loop of l. 505-519 over the sorted ledger
TakeCandidates(lg, state, fl, max, out) ==
    IF lg = <<>> THEN out
    ELSE IF ~Head(lg).indexed
            \/ Head(lg).archive_path \in DOMAIN state.distilled_archives
            \/ ~Exists(fl, Head(lg).archive_path)
         THEN TakeCandidates(Tail(lg), state, fl, max, out)
         ELSE IF Len(out) + 1 >= max
              THEN Append(out, Head(lg))
              ELSE TakeCandidates(Tail(lg), state, fl, max, Append(out, Head(lg)))

\* l. 472-535: the candidates, or the note that says why there are none
distill_selection(config, state, targets, captured_at, lg, torn, fl) ==
    IF config.distill_mode # "idle"
    THEN [candidates |-> <<>>, note |-> "manual-mode"]
    ELSE IF targets # <<>>
    THEN [candidates |-> <<>>, note |-> "compaction-active"]
    ELSE IF ~is_cooldown_ready(state.last_distill_trigger_epoch_secs, captured_at,
                               config.cooldown_secs)
    THEN [candidates |-> <<>>, note |-> "cooldown"]
    ELSE IF ~ReadLedgerOk(torn)
    THEN [candidates |-> <<>>, note |-> "ledger-read-failed"]
    ELSE IF lg = <<>>
    THEN [candidates |-> <<>>, note |-> "no-archives"]
    ELSE IF saturating_sub(captured_at, MaxCreated(lg)) < config.idle_secs
    THEN [candidates |-> <<>>, note |-> "not-idle"]
    ELSE LET taken == TakeCandidates(SortByCreated(lg), state, fl,
                                     config.max_per_cycle, <<>>)
         IN  [candidates |-> taken,
              note |-> IF taken = <<>> THEN "no-undistilled-archives" ELSE ""]

DistillStep ==
    /\ pc = "distill"
    /\ LET sel == distill_selection(cfg, st, cyc.targets, CapturedAt, ledger,
                                    ledgerTorn, files)
       IN  \E fault \in {"none", "audit"} :
              /\ fault # "none" => CanFail /\ sel.candidates = <<>>
              /\ budget' = Spend(IF fault = "none" THEN 0 ELSE 1)
              /\ IF sel.candidates # <<>>
                 THEN /\ pc' = "distill_run"
                      /\ cyc' = [cyc EXCEPT !.candidates = sel.candidates]
                      /\ UNCHANGED trace
                 ELSE IF fault = "audit"
                 THEN /\ pc' = "aborted"
                      /\ cyc' = [cyc EXCEPT !.abort_at = "audit"]
                      /\ UNCHANGED trace
                 ELSE /\ pc' = "retention"
                      /\ cyc' = cyc
                      /\ trace' = Append(trace, Audit("distill", "distill", "skipped", NoKey))
    /\ UNCHANGED <<now, sessions, inbox, files, ledger, ledgerTorn, chanMap,
                   chanMapTorn, stateFile, memoryLog, cfg, st, hist, call, fnIn, fnOut>>

\* l. 538-582 for one candidate, with distill.rs run_distillation
DistillOne ==
    /\ pc = "distill_run"
    /\ \E fault \in {"none", "summary", "inner_audit", "audit"} :
          LET record == Head(cyc.candidates)
              rest == Tail(cyc.candidates)
              appended == fault # "summary"
              ok == fault \notin {"summary", "inner_audit"}
          IN  /\ fault # "none" => CanFail
              /\ budget' = Spend(IF fault = "none" THEN 0 ELSE 1)
              /\ memoryLog' = IF appended THEN Append(memoryLog, record.archive_path)
                              ELSE memoryLog
              /\ st' = IF ok
                       THEN [st EXCEPT
                               !.last_distill_trigger_epoch_secs = Some(CapturedAt),
                               !.distilled_archives =
                                   MapInsert(@, record.archive_path, CapturedAt)]
                       ELSE st
              /\ hist' = IF ok
                         THEN [hist EXCEPT !.distilled =
                                 @ \cup {[path |-> record.archive_path, t |-> CapturedAt]}]
                         ELSE hist
              /\ trace' = trace
                    \o (IF appended
                        THEN <<Effect("distill", "memory_append", NoKey)>> ELSE <<>>)
                    \o (IF ok
                        THEN <<Audit("distill", "distill", "ok", NoKey)>> ELSE <<>>)
                    \o (IF fault = "audit" THEN <<>>
                        ELSE <<Audit("distill", "distill",
                                     IF ok THEN "ok" ELSE "degraded", NoKey)>>)
              /\ IF fault = "audit"
                 THEN /\ pc' = "aborted"
                      /\ cyc' = [cyc EXCEPT !.abort_at = "audit"]
                 ELSE /\ pc' = IF rest = <<>> THEN "retention" ELSE "distill_run"
                      /\ cyc' = [cyc EXCEPT !.candidates = rest]
    /\ UNCHANGED <<now, sessions, inbox, files, ledger, ledgerTorn, chanMap,
                   chanMapTorn, stateFile, cfg, call, fnIn, fnOut>>

(***************************************************************************)
(* watcher.rs l. 587-600 with cleanup_expired_distilled_archives           *)
(* (l. 125-186), channel_archive_map.rs remove_by_archive_paths and        *)
(* archive.rs remove_ledger_records.                                       *)
(***************************************************************************)
\* l. 148, as a bug would have it: every distilled archive counts as expired
is_expired_always(now_epoch_secs, distilled_at, grace_secs) == TRUE

\* l. 148: the entry is skipped while now - distilled_at < grace_secs
is_expired(now_epoch_secs, distilled_at, grace_secs) ==
    ~(saturating_sub(now_epoch_secs, distilled_at) < grace_secs)

\* map.retain(|_, record| !archive_paths.contains(&record.archive_path))
RetainMap(map, archive_paths) ==
    [k \in {x \in DOMAIN map : map[x].archive_path \notin archive_paths} |-> map[k]]

MapPaths(map) == {map[k].archive_path : k \in DOMAIN map}

RetentionFaults ==
    {"none", "delete", "map_err", "map_torn", "ledger_err", "ledger_torn", "qmd", "audit"}

\* l. 152-166, as a bug would have it: only the files removed now are purged
purge_paths_removed_only(expired, existing, failing) == existing \ failing

\* l. 152-166: an expired entry is purged when its file was removed or is
\* already missing, and kept when the removal failed
purge_paths(expired, existing, failing) == expired \ failing

RetentionStep ==
    /\ pc = "retention"
    /\ LET grace_secs == saturating_mul(cfg.archive_grace_hours, 3600)
           expired == {p \in DOMAIN st.distilled_archives :
                          is_expired(CapturedAt, st.distilled_archives[p], grace_secs)}
           existing == {p \in expired : Exists(files, p)}
       IN  \E fault \in RetentionFaults, failing \in SUBSET existing :
              LET removed == existing \ failing
                  purge == purge_paths(expired, existing, failing)
                  idle == purge = {} /\ failing = {}
                  map1 == RetainMap(chanMap, purge)
                  mapRewrite == purge # {} /\ ~chanMapTorn /\ map1 # chanMap
                  mapOk == purge = {}
                           \/ (~chanMapTorn /\ (~mapRewrite \/ fault \notin {"map_err", "map_torn"}))
                  kept == KeepRecords(ledger, purge)
                  ledgerRewrite == mapOk /\ purge # {} /\ ~ledgerTorn /\ kept # ledger
                  ledgerOk == purge = {}
                              \/ (ledger = <<>> /\ ~ledgerTorn)
                              \/ (~ledgerTorn
                                  /\ (~ledgerRewrite \/ fault \notin {"ledger_err", "ledger_torn"}))
                  cascaded == mapOk /\ ledgerOk
                  row == Audit("retention", "archive-retention",
                               IF failing # {} THEN "degraded" ELSE "ok", NoKey)
                  events ==
                      (IF removed # {}
                       THEN <<Effect("retention", "file_delete", NoKey)>> ELSE <<>>)
                      \o (IF mapRewrite /\ fault # "map_err"
                          THEN <<Effect("retention", "map_rewrite", NoKey)>> ELSE <<>>)
                      \o (IF ledgerRewrite /\ fault # "ledger_err"
                          THEN <<Effect("retention", "ledger_rewrite", NoKey)>> ELSE <<>>)
                      \o (IF cascaded /\ purge # {} /\ fault # "qmd"
                          THEN <<Effect("retention", "qmd_update", NoKey)>> ELSE <<>>)
                      \o (IF cascaded /\ ~idle /\ grace_secs # 0 /\ fault # "audit"
                          THEN <<row>> ELSE <<>>)
              IN  /\ fault # "none" => CanFail
                  /\ (failing # {}) = (fault = "delete")
                  /\ grace_secs = 0 => fault = "none"
                  /\ fault \in {"map_err", "map_torn"} => mapRewrite
                  /\ fault \in {"ledger_err", "ledger_torn"} => ledgerRewrite
                  /\ fault = "qmd" => cascaded /\ purge # {}
                  /\ fault = "audit" => cascaded /\ ~idle
                  /\ budget' = Spend(IF fault = "none" THEN 0 ELSE 1)
                  /\ files' = RemoveFiles(files, removed)
                  /\ st' = [st EXCEPT !.distilled_archives = MapRemove(@, purge)]
                  /\ chanMap' = IF mapRewrite /\ mapOk THEN map1 ELSE chanMap
                  /\ chanMapTorn' = (chanMapTorn \/ (mapRewrite /\ fault = "map_torn"))
                  /\ ledger' = IF ledgerRewrite /\ ledgerOk THEN kept ELSE ledger
                  /\ ledgerTorn' = (ledgerTorn \/ (ledgerRewrite /\ fault = "ledger_torn"))
                  /\ hist' = [hist EXCEPT !.deleted =
                                @ \cup {[path |-> p, at |-> CapturedAt, cycle |-> budget.cycles] :
                                           p \in purge}]
                  /\ trace' = trace
                        \o (IF grace_secs = 0
                            THEN <<Audit("retention", "archive-retention", "ok", NoKey)>>
                            ELSE events)
                  /\ IF ~cascaded \/ fault = "audit"
                     THEN /\ pc' = "aborted"
                          /\ cyc' = [cyc EXCEPT !.abort_at =
                                        IF fault = "audit" THEN "audit" ELSE "retention"]
                     ELSE /\ pc' = "persist"
                          /\ cyc' = cyc
    /\ UNCHANGED <<now, sessions, inbox, stateFile, memoryLog, cfg, call, fnIn, fnOut>>

(***************************************************************************)
(* watcher.rs l. 602 with state.rs save: fs::write of the whole file.      *)
(***************************************************************************)
\* state.rs save, as a bug would have it: the heartbeat is not written
SavedStateStale(state) == WholeFile([state EXCEPT !.last_heartbeat_epoch_secs = 0])

\* state.rs save: what a later load parses from the file
SavedState(state) == WholeFile(state)

Save ==
    /\ pc = "persist"
    /\ \E fault \in {"none", "state_err", "state_torn"} :
          /\ fault # "none" => CanFail
          /\ budget' = Spend(IF fault = "none" THEN 0 ELSE 1)
          /\ stateFile' = IF fault = "none" THEN SavedState(st)
                          ELSE IF fault = "state_torn" THEN TornFile
                          ELSE stateFile
          /\ trace' = IF fault = "state_err" THEN trace
                      ELSE Append(trace, Effect("persist", "state_write", NoKey))
          /\ pc' = IF fault = "none" THEN "done" ELSE "aborted"
          /\ cyc' = IF fault = "none" THEN cyc ELSE [cyc EXCEPT !.abort_at = "persist"]
    /\ UNCHANGED <<now, sessions, inbox, files, ledger, ledgerTorn, chanMap,
                   chanMapTorn, memoryLog, cfg, st, hist, call, fnIn, fnOut>>

Next ==
    \/ Begin
    \/ InboundWatch
    \/ Sample
    \/ ArchiveStep
    \/ CompactTarget
    \/ CompactionClose
    \/ DistillStep
    \/ DistillOne
    \/ RetentionStep
    \/ Save

Spec == Init /\ [][Next]_vars

(***************************************************************************)
(* The watcher restarted after two cycles: the first archived the Discord  *)
(* session at time 1, the second distilled that archive one hour later.    *)
(***************************************************************************)
DistilledAt == 1 + 3600

DistilledState ==
    [StampState(FirstState, to_snapshot(KeyMain, 10, ContextTokens, DistilledAt)) EXCEPT
        !.last_distill_trigger_epoch_secs = Some(DistilledAt),
        !.distilled_archives = (Unwrap(FirstArchive.record).archive_path :> DistilledAt)]

InitRecover ==
    /\ now = DistilledAt
    /\ sessions = InitSessions
    /\ inbox = 1
    /\ files = FirstArchive.files
    /\ ledger = FirstArchive.ledger
    /\ ledgerTorn = FALSE
    /\ \E compacted \in BOOLEAN :
          chanMap = IF compacted
                    THEN (KeyDiscord :> ChannelRecord(KeyDiscord,
                                                      Unwrap(FirstArchive.record).source_path,
                                                      Unwrap(FirstArchive.record).archive_path, 1))
                    ELSE <<>>
    /\ chanMapTorn = FALSE
    /\ stateFile = WholeFile(DistilledState)
    /\ memoryLog = <<Unwrap(FirstArchive.record).archive_path>>
    /\ cfg \in Configs
    /\ pc = "idle"
    /\ st = DefaultState
    /\ cyc = EmptyCycle
    /\ trace = <<>>
    /\ hist = [distilled |-> {[path |-> Unwrap(FirstArchive.record).archive_path,
                               t |-> DistilledAt]},
               deleted |-> {}, index_ok |-> {}, notified |-> {1}, triggered |-> <<1>>]
    /\ budget = [cycles |-> 0, faults |-> 0, appends |-> 0, calls |-> 0]
    /\ call = <<>>
    /\ fnIn = <<>>
    /\ fnOut = <<>>

SpecRecover == InitRecover /\ [][Next]_vars

(***************************************************************************)
(* Properties of the watcher cycle (specification Spec).                   *)
(***************************************************************************)
Events(kind) == {i \in 1..Len(trace) : trace[i].kind = kind}

CycleOver == pc \in {"done", "aborted"}

\* C1: archive-before-compact.  Every compact RPC of the cycle for a channel
\* key K comes after archive_and_index returned an indexed record for K and
\* after the channel-map upsert for K; a key whose record came back not
\* indexed gets no RPC in the cycle and its outcome is index-failed.
C1_ArchiveBeforeCompact ==
    /\ \A i \in Events("rpc") :
          \E j \in Events("archive_result"), m \in Events("map_upsert") :
             /\ j < m /\ m < i
             /\ trace[j].key = trace[i].key /\ trace[j].status = "indexed"
             /\ trace[m].key = trace[i].key
    /\ \A j \in Events("archive_result") :
          trace[j].status = "not_indexed" =>
             /\ \A i \in Events("rpc") : trace[i].key # trace[j].key
             /\ \A n \in 1..Len(cyc.outcomes) :
                   cyc.outcomes[n].key = trace[j].key =>
                      cyc.outcomes[n].result = "index-failed"

\* one cycle in which a target was compacted and another one was index-failed
C1_Witness ==
    /\ Events("rpc") # {}
    /\ \E n \in 1..Len(cyc.outcomes) : cyc.outcomes[n].result = "index-failed"
    /\ \E j \in Events("archive_result") : trace[j].status = "not_indexed"

\* C5: retention reclaims only what was distilled at least the grace ago.
\* Every archive the watcher deleted or dropped from the ledger and the channel
\* map had a successful distillation at a time t with now - t >= grace, now
\* being the clock of the deleting cycle.
C5_RetentionOnlyPastGrace ==
    \A d \in hist.deleted :
       \E h \in hist.distilled :
          /\ h.path = d.path
          /\ h.t < d.at
          /\ d.at - h.t >= cfg.archive_grace_hours * 3600

\* an archive file was deleted by retention, and another distilled archive is kept
C5_Witness ==
    /\ hist.deleted # {}
    /\ \E d \in hist.deleted : ~Exists(files, d.path)
    /\ ledger # <<>>

\* C6 as the specification states it: once the retention step of a cycle has
\* processed an expired archive P and the cycle is over, P's file is gone, no
\* ledger or channel-map record names P, the persisted state does not list P
\* and the indexer got an update call.
C6_RetentionCascade ==
    \A d \in hist.deleted :
       (CycleOver /\ d.cycle = budget.cycles) =>
          /\ ~Exists(files, d.path)
          /\ ~ledgerTorn /\ d.path \notin LedgerPaths(ledger)
          /\ ~chanMapTorn /\ d.path \notin MapPaths(chanMap)
          /\ stateFile.status = "whole"
          /\ d.path \notin DOMAIN stateFile.state.distilled_archives
          /\ Events("qmd_update") # {}

\* C7 as the specification states it: no failure of a step ends the cycle
\* early; a cycle that got past loading its configuration and state runs to
\* the end and persists the state.
C7_StepFailureNeverAborts ==
    pc = "aborted" => cyc.abort_at \in {"config", "state_load"}

\* C8: whenever run_once returns Ok the state file parses, and its heartbeat
\* is the captured_at of the usage snapshot of that cycle.
C8_StateFileDurability ==
    pc = "done" =>
       /\ stateFile.status = "whole"
       /\ stateFile.state.last_heartbeat_epoch_secs = CapturedAt

\* a second cycle returned Ok after the clock moved on
C8_Witness ==
    /\ pc = "done"
    /\ budget.cycles = 2
    /\ CapturedAt = 3601

\* C9 as the specification states it: the state file, the ledger and the
\* channel map are never left truncated or half written.
C9_AtomicPersistence ==
    /\ stateFile.status # "torn"
    /\ ~ledgerTorn
    /\ ~chanMapTorn

StepRank(step) ==
    CASE step = "inbound" -> 1
      [] step = "usage" -> 2
      [] step = "archive" -> 3
      [] step = "compaction" -> 4
      [] step = "distill" -> 5
      [] step = "retention" -> 6
      [] step = "persist" -> 7

\* C10 as the specification states it: the effects of a cycle come in the
\* order of the steps, and every cycle writes the state file exactly once, as
\* its last effect.
C10_StepOrdering ==
    /\ \A i, j \in 1..Len(trace) :
          i < j => StepRank(trace[i].step) <= StepRank(trace[j].step)
    /\ (CycleOver /\ cyc.abort_at \notin {"config", "state_load"}) =>
          /\ Events("state_write") = {Len(trace)}
          /\ Len(trace) > 0

AuditRows(phase) == {i \in Events("audit") : trace[i].phase = phase}

\* the channel keys an audit row names: its own key, or, for the row that
\* closes the compaction step, the keys of all the outcomes it lists
RefKeys(i) ==
    IF trace[i].key = NoKey
    THEN {cyc.outcomes[n].key : n \in 1..Len(cyc.outcomes)}
    ELSE {trace[i].key}

\* C11: audit ordering.  In a cycle whose trigger set is not empty, every
\* compaction row with status ok comes after an archive row that names the
\* same session key.
C11_AuditOrdering ==
    cyc.triggers # <<>> =>
       \A i \in AuditRows("compaction") :
          trace[i].status = "ok" =>
             \A k \in RefKeys(i) :
                \E j \in AuditRows("archive") : j < i /\ trace[j].key = k

\* a triggered cycle compacted two channels and closed the step with status ok
C11_Witness ==
    /\ cyc.triggers # <<>>
    /\ \E i, j \in AuditRows("compaction") :
          /\ trace[i].status = "ok" /\ trace[i].key = KeyDiscord
          /\ trace[j].status = "ok" /\ trace[j].key = NoKey
          /\ Len(cyc.outcomes) = 2

\* C12 as the specification states it: a cycle that ran to its end has
\* written at least one audit row for each of the phases archive, compaction,
\* distill and archive-retention, a phase that did not run a skipped row.
C12_AuditCompleteness ==
    pc = "done" =>
       \A phase \in {"archive", "compaction", "distill", "archive-retention"} :
          \E i \in AuditRows(phase) :
             trace[i].status \in {"ok", "degraded", "skipped", "triggered"}

\* the effects of the compaction step on the archives, the channel map and
\* the gateway
CompactionEffects ==
    {i \in 1..Len(trace) :
        /\ trace[i].step = "compaction"
        /\ trace[i].kind \in {"snapshot", "projection", "index", "ledger_append",
                              "archive_result", "map_upsert", "rpc"}}

\* C13 as the specification states it: transcripts are archived for
\* compaction, the channel map is upserted and compact RPCs are sent only in a
\* cycle whose trigger set contains Compaction.
C13_CompactionGated ==
    CompactionEffects # {} =>
       "Compaction" \in {cyc.triggers[i] : i \in 1..Len(cyc.triggers)}

\* the channel-shaped keys at or over the compaction ratio in this cycle
SuchKeys == {k \in Keys : IsCompactionTarget(cfg, k, cyc.load[k])}

CompactionOver == pc \in {"distill", "distill_run", "retention", "persist", "done"}

\* nothing has failed in the cycle, the compaction cooldown is over, the
\* ledger and the channel map can be read and every such key has a transcript
CompactionHealthy ==
    /\ budget.faults = cyc.faults0
    /\ cyc.cooldown_ready
    /\ ~ledgerTorn /\ ~chanMapTorn
    /\ SuchKeys \subseteq DOMAIN load_session_source_map(sessions)

\* C14 as the specification states it: only such keys get a compact RPC, and in
\* a healthy cycle every such key gets exactly one, the keys upserted into the
\* channel map are exactly those keys, and each points to the archive of the
\* bytes of its transcript.
C14_SelectiveCompaction ==
    CompactionOver =>
       /\ \A i \in Events("rpc") : trace[i].key \in SuchKeys
       /\ CompactionHealthy =>
             /\ \A k \in SuchKeys :
                   Cardinality({i \in Events("rpc") : trace[i].key = k}) = 1
             /\ {trace[i].key : i \in Events("map_upsert")} = SuchKeys
             /\ \A k \in SuchKeys :
                   /\ k \in DOMAIN chanMap
                   /\ \E n \in 1..Len(ledger) :
                         /\ ledger[n].archive_path = chanMap[k].archive_path
                         /\ ledger[n].source_path = cyc.source_map[k]
                         /\ ledger[n].content_hash =
                               file_hash(sessions[cyc.source_map[k]].bytes)

\* C20 as the specification states it: when the retention step returns, every
\* entry of distilled_archives whose grace had expired is dropped from the
\* state, and no channel-map or ledger record names its archive, whether or
\* not the file could be deleted.
C20_RetentionOnDeleteFailure ==
    [][(pc = "retention" /\ pc' = "persist") =>
          \A p \in DOMAIN st.distilled_archives :
             is_expired(CapturedAt, st.distilled_archives[p],
                        saturating_mul(cfg.archive_grace_hours, 3600)) =>
                /\ p \notin DOMAIN st'.distilled_archives
                /\ p \notin MapPaths(chanMap')
                /\ p \notin LedgerPaths(ledger')]_vars

\* the targets of the cycle whose compact RPC came back as a protocol mismatch
RpcMismatch == {n \in 1..Len(cyc.outcomes) : cyc.outcomes[n].result = "failed"}

\* C21: a compact RPC that returns neither started with a runId nor ok=true
\* is audited as degraded for its key and does not end the cycle: run_once
\* stops early after it only when a second failure occurs in the cycle, the
\* remaining targets get their outcome and the step closes as degraded, and
\* the state, in memory and as persisted when run_once returns Ok, keeps
\* last_compaction_trigger_epoch_secs = captured_at of the cycle.
C21_CompactProtocolMismatch ==
    RpcMismatch # {} =>
       /\ \A n \in RpcMismatch :
             \E i \in 1..Len(trace) :
                trace[i] = Audit("compaction", "compaction", "degraded",
                                 cyc.outcomes[n].key)
       /\ st.last_compaction_trigger_epoch_secs = Some(CapturedAt)
       /\ pc = "aborted" => budget.faults - cyc.faults0 >= 2
       /\ pc \in {"distill", "distill_run", "retention", "persist", "done"} =>
             /\ Len(cyc.outcomes) = Len(cyc.targets)
             /\ \E i \in 1..Len(trace) :
                   trace[i] = Audit("compaction", "compaction", "degraded", NoKey)
       /\ pc = "done" =>
             /\ stateFile.status = "whole"
             /\ stateFile.state.last_compaction_trigger_epoch_secs = Some(CapturedAt)

\* run_once returned Ok in a cycle of two targets: the RPC of the first was a
\* protocol mismatch, the second was compacted
C21_Witness ==
    /\ pc = "done"
    /\ Len(cyc.outcomes) = 2
    /\ cyc.outcomes[1].result = "failed"
    /\ cyc.outcomes[2].result = "ok"

\* the value recorded for the watched file in a seen-map, 0 when absent
SeenValue(seen) == IF InboxFile \in DOMAIN seen THEN seen[InboxFile] ELSE 0

\* C24 as the specification states it, for the inbound step of a cycle with
\* watching enabled: a system event is sent for the watched file exactly when
\* its mtime exceeds the value recorded for it; after a successful event
\* the recorded value is that mtime; no event is sent for an mtime that an
\* earlier cycle has already notified; the entry of a file that disappeared
\* is pruned.
C24_InboundOncePerChange ==
    [][(pc = "inbound" /\ pc' = "usage" /\ cfg.inbound_enabled) =>
          LET sent == Len(trace') > Len(trace)
          IN  /\ (cyc'.inbound.detected = 1) =
                    (inbox > 0 /\ inbox > SeenValue(st.inbound_seen_files))
              /\ sent => cyc'.inbound.detected = 1
              /\ sent => SeenValue(st'.inbound_seen_files) = inbox
              /\ sent => inbox \notin hist.notified
              /\ inbox = 0 => InboxFile \notin DOMAIN st'.inbound_seen_files]_vars

\* the later of the two trigger times of a persisted state
LastTrigger(state) == unified_layer1_last_trigger(state)

\* C30: trigger cooldown across cycles.  Any two cycles that evaluated a
\* non-empty trigger set have captured_at times at least cooldown_secs
\* apart, and a cycle that triggered has started the cooldown when it is
\* over, whatever its archive and compaction steps gave: the state file
\* holds its captured_at as the last trigger time.
C30_TriggerCooldownAcrossCycles ==
    /\ \A i, j \in 1..Len(hist.triggered) :
          i < j => hist.triggered[j] - hist.triggered[i] >= cfg.cooldown_secs
    /\ (CycleOver /\ cyc.triggers # <<>>) =>
          /\ stateFile.status = "whole"
          /\ LastTrigger(stateFile.state) = Some(CapturedAt)

\* C31: at-most-once distillation.  Over all cycles, failing ones included,
\* at most one summary is appended to the daily memory file for an archive
\* path.
C31_AtMostOnceDistillation ==
    \A i, j \in 1..Len(memoryLog) : memoryLog[i] = memoryLog[j] => i = j

\* an archive purged in an earlier cycle
PurgedBefore(d) == d \in hist.deleted /\ d.cycle < budget.cycles

Referenced(p) ==
    \/ \E i \in 1..Len(ledger) : ledger[i].archive_path = p
    \/ p \in MapPaths(chanMap)
    \/ p \in DOMAIN stateFile.state.distilled_archives

\* C32: retention recovery.  When a cycle has run to its end, state save
\* included, no archive whose file an earlier cycle deleted is named by a
\* ledger record, a channel-map record or the persisted distilled_archives,
\* also when that earlier cycle failed before its removals or its save.
C32_RetentionRecovery ==
    pc = "done" => \A d \in hist.deleted : PurgedBefore(d) => ~Referenced(d.path)

\* a cycle deleted the file and failed; the next one purged the missing
\* file again and ran to its end
C32_Witness ==
    /\ pc = "done"
    /\ budget.faults = 1
    /\ \E d, e \in hist.deleted :
          /\ d.path = e.path
          /\ d.cycle < e.cycle
          /\ e.cycle = budget.cycles
          /\ ~Exists(files, d.path)
          /\ ~Referenced(d.path)

(***************************************************************************)
(* Specification SpecEval: thresholds.rs evaluate as a pure function.      *)
(* The initial states draw its inputs, the one action applies it.          *)
(***************************************************************************)
EvalInputs ==
    [used : {0, 84, 85, 100},
     last_archive : {None} \cup {Some(t) : t \in 0..MaxEpoch},
     last_compaction : {None} \cup {Some(t) : t \in 0..MaxEpoch},
     now : 0..MaxEpoch,
     cooldown : {0, 1, 2}]

InitEval ==
    /\ \E in \in EvalInputs :
          /\ fnIn = <<in>>
          /\ cfg = [DefaultConfig EXCEPT !.cooldown_secs = in.cooldown]
          /\ st = [DefaultState EXCEPT
                     !.last_archive_trigger_epoch_secs = in.last_archive,
                     !.last_compaction_trigger_epoch_secs = in.last_compaction]
    /\ now = 1
    /\ sessions = InitSessions
    /\ inbox = 0
    /\ files = <<>>
    /\ ledger = <<>>
    /\ ledgerTorn = FALSE
    /\ chanMap = <<>>
    /\ chanMapTorn = FALSE
    /\ stateFile = NoFile
    /\ memoryLog = <<>>
    /\ pc = "pure"
    /\ cyc = EmptyCycle
    /\ trace = <<>>
    /\ hist = [distilled |-> {}, deleted |-> {}, index_ok |-> {}, notified |-> {},
               triggered |-> <<>>]
    /\ budget = [cycles |-> 0, faults |-> 0, appends |-> 0, calls |-> 0]
    /\ call = <<>>
    /\ fnOut = <<>>

Evaluate ==
    /\ pc = "pure"
    /\ fnOut = <<>>
    /\ fnIn # <<>>
    /\ fnOut' = <<evaluate(cfg, st,
                           to_snapshot(KeyMain, fnIn[1].used, ContextTokens, fnIn[1].now))>>
    /\ pc' = "applied"
    /\ UNCHANGED <<now, sessions, inbox, files, ledger, ledgerTorn, chanMap,
                   chanMapTorn, stateFile, memoryLog, cfg, st, cyc, trace, hist,
                   budget, call, fnIn>>

NextEval == Evaluate

SpecEval == InitEval /\ [][NextEval]_vars

\* the inputs of the call, read back from fnIn
EvalOverRatio == fnIn[1].used * 100 >= 85 * ContextTokens
EvalNoTrigger == fnIn[1].last_archive = None /\ fnIn[1].last_compaction = None
EvalLastTrigger ==
    IF fnIn[1].last_archive = None THEN Unwrap(fnIn[1].last_compaction)
    ELSE IF fnIn[1].last_compaction = None THEN Unwrap(fnIn[1].last_archive)
    ELSE IF Unwrap(fnIn[1].last_archive) >= Unwrap(fnIn[1].last_compaction)
         THEN Unwrap(fnIn[1].last_archive)
         ELSE Unwrap(fnIn[1].last_compaction)

\* C4 as amended: evaluate returns [Archive, Compaction] exactly when the
\* usage ratio is at least the trigger ratio and either no trigger was ever
\* recorded or the time since the later of the two triggers, counted as zero
\* when the clock is behind that trigger, is at least cooldown_secs; in every
\* other case it returns the empty list.
C4_TriggerEvaluation ==
    fnOut # <<>> =>
       LET since == IF fnIn[1].now >= EvalLastTrigger
                    THEN fnIn[1].now - EvalLastTrigger ELSE 0
       IN  fnOut[1] = IF EvalOverRatio /\ (EvalNoTrigger \/ since >= fnIn[1].cooldown)
                      THEN <<"Archive", "Compaction">>
                      ELSE <<>>

\* evaluate fired after a cooldown that had just run out, the later trigger
\* being the compaction one
C4_Witness ==
    /\ fnOut = <<<<"Archive", "Compaction">>>>
    /\ fnIn[1].last_archive = Some(0)
    /\ fnIn[1].last_compaction = Some(0)
    /\ fnIn[1].now = 1
    /\ fnIn[1].cooldown = 1

\* C4 as the specification states it, with now - max(..) a difference of integers
C4_TriggerEvaluationAsStated ==
    fnOut # <<>> =>
       fnOut[1] = IF EvalOverRatio
                     /\ (EvalNoTrigger \/ fnIn[1].now - EvalLastTrigger >= fnIn[1].cooldown)
                  THEN <<"Archive", "Compaction">>
                  ELSE <<>>

(***************************************************************************)
(* Specification SpecArch: the archive pipeline on its own.  A single      *)
(* watcher calls archive_and_index, removes ledger records as retention    *)
(* does, and migrates the archive layout, while the agent appends to the   *)
(* transcripts and the clock advances.                                     *)
(***************************************************************************)
\* an archive written by an earlier release, flat under archives/
LegacyArchive == [dir |-> "flat", name |-> <<sanitize_slug(SrcA.stem), 0>>, ext |-> "jsonl"]
LegacyProjection == [LegacyArchive EXCEPT !.ext = "md"]
LegacyRecord ==
    [session_id |-> SrcA.stem,
     source_path |-> SrcA,
     archive_path |-> LegacyArchive,
     projection_path |-> Some(LegacyProjection),
     content_hash |-> file_hash(1),
     created_at_epoch_secs |-> 0,
     indexed_collection |-> "history",
     indexed |-> TRUE]

\* archive.rs conflict_projection_target
conflict_projection_target(base_target, source_hash, index) ==
    [base_target EXCEPT !.name = @ \o <<"legacy", source_hash>>
                                   \o (IF index = 0 THEN <<>> ELSE <<index>>)]

RECURSIVE conflict_move(_, _, _, _)
\* archive.rs move_projection_file: the loop over the conflict names
conflict_move(fl, from, to, index) ==
    LET candidate == conflict_projection_target(to, file_hash(fl[from]), index)
    IN  IF ~Exists(fl, candidate)
        THEN WriteFile(RemoveFiles(fl, {from}), candidate, fl[from])
        ELSE IF file_hash(fl[candidate]) = file_hash(fl[from])
             THEN RemoveFiles(fl, {from})
             ELSE conflict_move(fl, from, to, index + 1)

\* archive.rs move_projection_file
move_projection_file(fl, from, to) ==
    IF Exists(fl, to)
    THEN IF file_hash(fl[from]) = file_hash(fl[to])
         THEN RemoveFiles(fl, {from})
         ELSE conflict_move(fl, from, to, 0)
    ELSE WriteFile(RemoveFiles(fl, {from}), to, fl[from])

\* archive.rs normalize_archive_layout, the body of the loop for one record
normalize_record(record, fl) ==
    LET old_archive == record.archive_path
        target_archive == [old_archive EXCEPT !.dir = "raw"]
        collides == target_archive # old_archive /\ Exists(fl, target_archive)
        fl1 == IF target_archive = old_archive THEN fl
               ELSE IF collides THEN RemoveFiles(fl, {old_archive})
               ELSE WriteFile(RemoveFiles(fl, {old_archive}), target_archive, fl[old_archive])
        rec1 == [record EXCEPT !.archive_path = target_archive]
        candidates == (IF IsSome(record.projection_path)
                       THEN {Unwrap(record.projection_path)} ELSE {})
                      \cup {projection_path_for_archive_path(old_archive),
                            [old_archive EXCEPT !.ext = "md"]}
                      \cup (IF old_archive.dir = "raw"
                            THEN {[dir |-> "lib", name |-> old_archive.name, ext |-> "md"]}
                            ELSE {})
        present == {c \in candidates : Exists(fl1, c)}
        new_projection == projection_path_for_archive_path(rec1.archive_path)
        old_projection == CHOOSE c \in present : TRUE
        fl2 == IF present # {} /\ old_projection # new_projection
               THEN move_projection_file(fl1, old_projection, new_projection)
               ELSE fl1
        rec2 == [rec1 EXCEPT !.projection_path =
                    IF present # {} THEN Some(new_projection) ELSE None]
    IN  IF ~Exists(fl, old_archive) THEN [record |-> record, files |-> fl]
        ELSE IF collides /\ file_hash(fl[old_archive]) # file_hash(fl[target_archive])
        THEN [record |-> record, files |-> fl]
        ELSE [record |-> rec2, files |-> fl2]

RECURSIVE normalize_records(_, _, _)
\* the loop of normalize_archive_layout over the ledger, in ledger order
normalize_records(todo, done, fl) ==
    IF todo = <<>> THEN [records |-> done, files |-> fl]
    ELSE LET r == normalize_record(Head(todo), fl)
         IN  normalize_records(Tail(todo), Append(done, r.record), r.files)

RECURSIVE sweep_projections(_, _)
\* the two sweeps that close normalize_archive_layout: every .md left under
\* raw/ or lib/ moves to mlib/
sweep_projections(fl, dir) ==
    LET stray == {f \in DOMAIN fl : f.dir = dir /\ f.ext = "md"}
        f == CHOOSE x \in stray : TRUE
    IN  IF stray = {} THEN fl
        ELSE sweep_projections(move_projection_file(fl, f, [f EXCEPT !.dir = "mlib"]), dir)

\* archive.rs normalize_archive_layout as a whole: the files and the ledger after it
normalize_archive_layout(fl, lg) ==
    IF lg = <<>> THEN [files |-> fl, ledger |-> lg]
    ELSE LET n == normalize_records(lg, <<>>, fl)
         IN  [files |-> sweep_projections(sweep_projections(n.files, "raw"), "lib"),
              ledger |-> n.records]

\* archive.rs l. 622-629: out.path_rewrites, old archive_path -> new one
path_rewrites(before, after) ==
    LET moved == {i \in 1..Len(before) : before[i].archive_path # after[i].archive_path}
    IN  [old \in {before[i].archive_path : i \in moved} |->
            after[CHOOSE i \in moved : before[i].archive_path = old].archive_path]

\* channel_archive_map.rs rewrite_archive_paths, as a bug would have it: the
\* map is left as it was
rewrite_archive_paths_noop(map, rewrites, t) == map

\* channel_archive_map.rs rewrite_archive_paths
rewrite_archive_paths(map, rewrites, t) ==
    [k \in DOMAIN map |->
        IF /\ map[k].archive_path \in DOMAIN rewrites
           /\ rewrites[map[k].archive_path] # map[k].archive_path
        THEN [map[k] EXCEPT !.archive_path = rewrites[map[k].archive_path],
                            !.updated_at_epoch_secs = t]
        ELSE map[k]]

\* the layout migration as a whole: normalize_archive_layout, then its
\* path-rewrite map applied to the channel map
migrate_layout(fl, lg, map, t) ==
    LET n == normalize_archive_layout(fl, lg)
    IN  [files |-> n.files, ledger |-> n.ledger,
         map |-> IF lg = <<>> THEN map
                 ELSE rewrite_archive_paths(map, path_rewrites(lg, n.ledger), t)]

\* archive.rs backfill_archive_projections, the body of the first loop for
\* one record
backfill_record(record, fl, reproject) ==
    LET archive_path == record.archive_path
        expected == projection_path_for_archive_path(archive_path)
        legacy == [archive_path EXCEPT !.ext = "md"]
        projection_source ==
            IF IsSome(record.projection_path) /\ Exists(fl, Unwrap(record.projection_path))
            THEN record.projection_path
            ELSE IF Exists(fl, legacy) THEN Some(legacy) ELSE None
        existing == Unwrap(projection_source)
        blocked == /\ existing # expected
                   /\ Exists(fl, expected)
                   /\ file_hash(fl[existing]) # file_hash(fl[expected])
        moved == IF existing = expected THEN fl
                 ELSE IF Exists(fl, expected) THEN RemoveFiles(fl, {existing})
                 ELSE WriteFile(RemoveFiles(fl, {existing}), expected, fl[existing])
        written == WriteFile(fl, expected, ProjectionBytes(record.content_hash))
        projected == [record EXCEPT !.projection_path = Some(expected)]
    IN  IF ~Exists(fl, archive_path) THEN [record |-> record, files |-> fl]
        ELSE IF ~reproject /\ IsSome(projection_source)
        THEN IF blocked THEN [record |-> record, files |-> fl]
             ELSE [record |-> projected, files |-> moved]
        ELSE [record |-> projected, files |-> written]

RECURSIVE backfill_records(_, _, _, _)
\* the loop of backfill_archive_projections over the ledger, in ledger order
backfill_records(todo, done, fl, reproject) ==
    IF todo = <<>> THEN [records |-> done, files |-> fl]
    ELSE LET r == backfill_record(Head(todo), fl, reproject)
         IN  backfill_records(Tail(todo), Append(done, r.record), r.files, reproject)

RECURSIVE backfill_untracked(_, _)
\* the sweep that closes backfill_archive_projections: a transcript under raw/
\* that no record tracks gets its projection if it has none
backfill_untracked(fl, tracked) ==
    LET todo == {f \in DOMAIN fl :
                    /\ f.dir = "raw" /\ f.ext \in {"json", "jsonl"}
                    /\ f \notin tracked
                    /\ ~Exists(fl, projection_path_for_archive_path(f))}
        f == CHOOSE x \in todo : TRUE
    IN  IF todo = {} THEN fl
        ELSE backfill_untracked(
                 WriteFile(fl, projection_path_for_archive_path(f),
                           ProjectionBytes(file_hash(fl[f]))),
                 tracked)

\* archive.rs backfill_archive_projections as a whole
backfill_archive_projections(fl, lg, reproject) ==
    IF lg = <<>> THEN [files |-> fl, ledger |-> lg]
    ELSE LET b == backfill_records(lg, <<>>, fl, reproject)
         IN  [files |-> backfill_untracked(b.files, LedgerPaths(lg)),
              ledger |-> b.records]

\* what is remembered of the calls on one source: the last call, the one
\* before it, and what the watcher did to the archives between and after them
NoCalls == [cur |-> None, prev |-> None, between |-> {}, after |-> {}]

NoteCall(c, summary) ==
    [cur |-> Some(summary), prev |-> c.cur, between |-> c.after, after |-> {}]

NoteEvent(c, what) == [c EXCEPT !.after = @ \cup {what}]

InitArch ==
    /\ now = 0
    /\ sessions = InitSessions
    /\ inbox = 0
    /\ \E legacy \in BOOLEAN :
          /\ files = IF legacy
                     THEN (LegacyArchive :> 1)
                          @@ (LegacyProjection :> ProjectionBytes(file_hash(1)))
                     ELSE <<>>
          /\ ledger = IF legacy THEN <<LegacyRecord>> ELSE <<>>
          /\ hist = [distilled |-> {}, deleted |-> {},
                      index_ok |-> IF legacy THEN {LegacyRecord.content_hash} ELSE {},
                      notified |-> {}, triggered |-> <<>>]
    /\ ledgerTorn = FALSE
    /\ chanMap = <<>>
    /\ chanMapTorn = FALSE
    /\ stateFile = NoFile
    /\ memoryLog = <<>>
    /\ cfg = DefaultConfig
    /\ pc = "archiving"
    /\ st = DefaultState
    /\ cyc = EmptyCycle
    /\ trace = <<>>
    /\ budget = [cycles |-> 0, faults |-> 0, appends |-> 0, calls |-> 0]
    /\ call = [s \in Sources |-> NoCalls]
    /\ fnIn = <<>>
    /\ fnOut = <<>>

\* one call of archive_and_index on a transcript that can be read, with the
\* indexer up (the failing calls are those of Spec); the agent may append to
\* the transcript between the hash of l. 912 and the read of write_snapshot
ArchiveCall ==
    /\ pc = "archiving"
    /\ budget.calls < MaxCalls
    /\ \E source \in Sources, raced \in BOOLEAN :
          LET bytes == sessions[source].bytes
              r == archive_and_index(files, ledger, ledgerTorn, source, bytes,
                                     IF raced THEN bytes + 1 ELSE bytes, now, "none")
              summary == [bytes |-> bytes, raced |-> raced, ok |-> r.ok,
                          deduped |-> r.deduped,
                          archive_path |-> Unwrap(r.record).archive_path,
                          wrote |-> r.files # files,
                          grew |-> Len(r.ledger) # Len(ledger)]
          IN  /\ raced => /\ budget.appends < MaxAppends
                          /\ ~IsSome(DedupLookup(ledger, file_hash(bytes), source))
              /\ budget' = [budget EXCEPT
                              !.calls = @ + 1,
                              !.appends = @ + (IF raced THEN 1 ELSE 0)]
              /\ sessions' = IF raced
                             THEN [sessions EXCEPT ![source] =
                                      [bytes |-> bytes + 1, mtime |-> now]]
                             ELSE sessions
              /\ files' = r.files
              /\ ledger' = r.ledger
              /\ call' = [call EXCEPT ![source] = NoteCall(@, summary)]
    /\ UNCHANGED <<now, inbox, ledgerTorn, chanMap, chanMapTorn, stateFile,
                   memoryLog, cfg, pc, st, cyc, trace, hist, fnIn, fnOut>>

\* retention reclaims one archive: the file goes (watcher.rs l. 153), then
\* remove_by_archive_paths and remove_ledger_records drop its records
RetentionRemove ==
    /\ pc \in {"archiving", "compacting"}
    /\ \E p \in LedgerPaths(ledger) :
          /\ files' = RemoveFiles(files, {p})
          /\ chanMap' = RetainMap(chanMap, {p})
          /\ ledger' = KeepRecords(ledger, {p})
    /\ call' = [s \in DOMAIN call |-> NoteEvent(call[s], "retention")]
    /\ UNCHANGED <<now, sessions, inbox, ledgerTorn, chanMapTorn, stateFile,
                   memoryLog, cfg, pc, st, cyc, trace, hist, budget, fnIn, fnOut>>

\* the operator migrates the archives to the raw/ and mlib/ layout
NormalizeLayout ==
    /\ pc \in {"archiving", "compacting"}
    /\ LET n == migrate_layout(files, ledger, chanMap, now)
       IN  /\ n.files # files \/ n.ledger # ledger
           /\ files' = n.files
           /\ ledger' = n.ledger
           /\ chanMap' = n.map
    /\ call' = [s \in DOMAIN call |-> NoteEvent(call[s], "migration")]
    /\ UNCHANGED <<now, sessions, inbox, ledgerTorn, chanMapTorn, stateFile,
                   memoryLog, cfg, pc, st, cyc, trace, hist, budget, fnIn, fnOut>>

\* the operator backfills the projections, keeping or rewriting those present
BackfillProjections ==
    /\ pc = "compacting"
    /\ \E reproject \in BOOLEAN :
          LET b == backfill_archive_projections(files, ledger, reproject)
          IN  /\ b.files # files \/ b.ledger # ledger
              /\ files' = b.files
              /\ ledger' = b.ledger
    /\ UNCHANGED <<now, sessions, inbox, ledgerTorn, chanMap, chanMapTorn, stateFile,
                   memoryLog, cfg, pc, st, cyc, trace, hist, budget, call, fnIn, fnOut>>

\* the agent appends to a transcript
AppendTranscript ==
    /\ pc = "archiving"
    /\ budget.appends < MaxAppends
    /\ \E s \in Sources :
          sessions' = [sessions EXCEPT ![s] = [bytes |-> @.bytes + 1, mtime |-> now]]
    /\ budget' = [budget EXCEPT !.appends = @ + 1]
    /\ UNCHANGED <<now, inbox, files, ledger, ledgerTorn, chanMap, chanMapTorn,
                   stateFile, memoryLog, cfg, pc, st, cyc, trace, hist, call,
                   fnIn, fnOut>>

\* a second passes
Tick ==
    /\ pc \in {"archiving", "compacting"}
    /\ now < MaxEpoch
    /\ now' = now + 1
    /\ UNCHANGED <<sessions, inbox, files, ledger, ledgerTorn, chanMap, chanMapTorn,
                   stateFile, memoryLog, cfg, pc, st, cyc, trace, hist, budget,
                   call, fnIn, fnOut>>

NextArch ==
    \/ ArchiveCall
    \/ RetentionRemove
    \/ NormalizeLayout
    \/ AppendTranscript
    \/ Tick

SpecArch == InitArch /\ [][NextArch]_vars

(***************************************************************************)
(* Specification SpecMap: the ledger, the projections and the channel map  *)
(* under the operations that write them.  The watcher archives a           *)
(* transcript, for the triggered archive or for a channel key of the       *)
(* compaction loop, with the projection or the indexer failing at times;   *)
(* retention reclaims archives; the operator migrates the layout and       *)
(* backfills projections.                                                  *)
(***************************************************************************)
InitMap ==
    /\ now = 0
    /\ sessions = InitSessions
    /\ inbox = 0
    /\ \E legacy \in BOOLEAN :
          /\ files = IF legacy
                     THEN (LegacyArchive :> 1)
                          @@ (LegacyProjection :> ProjectionBytes(file_hash(1)))
                     ELSE <<>>
          /\ ledger = IF legacy THEN <<LegacyRecord>> ELSE <<>>
          /\ hist = [distilled |-> {}, deleted |-> {},
                      index_ok |-> IF legacy THEN {LegacyRecord.content_hash} ELSE {},
                      notified |-> {}, triggered |-> <<>>]
    /\ ledgerTorn = FALSE
    /\ chanMap = <<>>
    /\ chanMapTorn = FALSE
    /\ stateFile = NoFile
    /\ memoryLog = <<>>
    /\ cfg = DefaultConfig
    /\ pc = "compacting"
    /\ st = DefaultState
    /\ cyc = EmptyCycle
    /\ trace = <<>>
    /\ budget = [cycles |-> 0, faults |-> 0, appends |-> 0, calls |-> 0]
    /\ call = <<>>
    /\ fnIn = <<>>
    /\ fnOut = <<>>

\* one call of archive_and_index on a transcript that can be read: from the
\* triggered archive (no target), or from the compaction loop for a channel
\* key of the transcript, which upserts the channel map when the record is
\* indexed (watcher.rs l. 334-396).  The projection or the indexer may fail.
\* fnIn and fnOut keep the arguments and the outcome of the last call.
PipelineCall ==
    /\ pc = "compacting"
    /\ budget.calls < MaxCalls
    /\ \E source \in Sources, fault \in {"none", "projection", "index"} :
          LET bytes == sessions[source].bytes
              source_map == load_session_source_map(sessions)
              r == archive_and_index(files, ledger, ledgerTorn, source, bytes, bytes,
                                     now, fault)
              rec == Unwrap(r.record)
              accepted == IF ~r.deduped /\ fault # "index" THEN {rec.content_hash} ELSE {}
          IN  /\ fault # "none" => /\ budget.faults < MaxFaults
                                   /\ ~IsSome(DedupLookup(ledger, file_hash(bytes), source))
              /\ budget' = [budget EXCEPT
                              !.calls = @ + 1,
                              !.faults = @ + (IF fault = "none" THEN 0 ELSE 1)]
              /\ files' = r.files
              /\ ledger' = r.ledger
              /\ hist' = [hist EXCEPT !.index_ok = @ \cup accepted]
              /\ \E target \in {NoKey} \cup {k \in DOMAIN source_map : source_map[k] = source} :
                    /\ chanMap' = IF target # NoKey /\ ~index_failed(rec)
                                  THEN MapInsert(chanMap, target,
                                                 ChannelRecord(target, rec.source_path,
                                                               rec.archive_path, now))
                                  ELSE chanMap
                    /\ fnIn' = [source |-> source, bytes |-> bytes, fault |-> fault,
                                target |-> target, ledger_len |-> Len(ledger)]
              /\ fnOut' = [ok |-> r.ok, deduped |-> r.deduped, record |-> rec,
                           archived |-> Exists(r.files, rec.archive_path)
                                        /\ r.files[rec.archive_path] = bytes,
                           appended |-> r.ledger = Append(ledger, rec)]
    /\ UNCHANGED <<now, sessions, inbox, ledgerTorn, chanMapTorn, stateFile,
                   memoryLog, cfg, pc, st, cyc, trace, call>>

NextMap ==
    \/ PipelineCall
    \/ RetentionRemove
    \/ NormalizeLayout
    \/ BackfillProjections
    \/ Tick

SpecMap == InitMap /\ [][NextMap]_vars

(***************************************************************************)
(* Properties of the archive pipeline (specification SpecArch).            *)
(***************************************************************************)
\* the sources whose last two calls both returned Ok on the same bytes
CalledTwice ==
    {s \in Sources :
        /\ IsSome(call[s].cur) /\ IsSome(call[s].prev)
        /\ Unwrap(call[s].cur).ok /\ Unwrap(call[s].prev).ok
        /\ ~Unwrap(call[s].prev).raced
        /\ Unwrap(call[s].cur).bytes = Unwrap(call[s].prev).bytes}

Idempotent(s) ==
    /\ Unwrap(call[s].cur).deduped
    /\ Unwrap(call[s].cur).archive_path = Unwrap(call[s].prev).archive_path
    /\ ~Unwrap(call[s].cur).wrote
    /\ ~Unwrap(call[s].cur).grew

\* C2 as amended: two calls of archive_and_index on a source whose bytes are
\* the same, with no retention and no layout migration between them: the
\* second returns deduped=true and the archive_path of the first, writes no
\* file, and leaves the length of the ledger as it was.
C2_ArchiveIdempotent ==
    \A s \in CalledTwice :
       call[s].between \cap {"retention", "migration"} = {} => Idempotent(s)

\* a source was archived for the first time, writing its archive, and then
\* archived again on the same bytes with nothing in between
C2_Witness ==
    \E s \in CalledTwice :
       /\ call[s].between = {}
       /\ ~Unwrap(call[s].prev).deduped
       /\ Unwrap(call[s].prev).wrote

\* C2 as the specification states it: only a retention between the two calls
\* is excluded
C2_ArchiveIdempotentAsStated ==
    \A s \in CalledTwice :
       "retention" \notin call[s].between => Idempotent(s)

\* C3: the ledger never holds two records with the same source_path and
\* content_hash, whatever calls, retention removals and layout migrations a
\* single watcher has made.
C3_LedgerKeyUnique ==
    ~ledgerTorn =>
       \A i, j \in 1..Len(ledger) :
          (/\ ledger[i].source_path = ledger[j].source_path
           /\ ledger[i].content_hash = ledger[j].content_hash) => i = j

\* the ledger holds two archives of one source, taken on different bytes, and
\* a layout migration has run
C3_Witness ==
    /\ Len(ledger) >= 2
    /\ \E i, j \in 1..Len(ledger) :
          /\ i # j
          /\ ledger[i].source_path = ledger[j].source_path
          /\ ledger[i].content_hash # ledger[j].content_hash
    /\ \E s \in Sources : "migration" \in call[s].after \cup call[s].between

\* C18 as the specification states it: a file under raw/ keeps its bytes for
\* as long as it exists; no step of the watcher writes it again.
C18_ArchiveImmutable ==
    [][\A p \in DOMAIN files :
          (p.dir = "raw" /\ p \in DOMAIN files') => files'[p] = files[p]]_vars

(***************************************************************************)
(* Properties of the ledger, the projections and the channel map           *)
(* (specification SpecMap).                                                *)
(***************************************************************************)
MigratedLegacyArchive == [LegacyArchive EXCEPT !.dir = "raw"]

C16_IndexedImpliesProjected ==
    \A i \in 1..Len(ledger) :
       ledger[i].indexed =>
          /\ IsSome(ledger[i].projection_path)
          /\ Exists(files, Unwrap(ledger[i].projection_path))
          /\ ledger[i].content_hash \in hist.index_ok

\* the ledger holds an indexed record moved by the migration and a record
\* whose projection failed and stayed not indexed
C16_Witness ==
    /\ \E i \in 1..Len(ledger) :
          ledger[i].indexed /\ ledger[i].archive_path = MigratedLegacyArchive
    /\ \E i \in 1..Len(ledger) :
          ~ledger[i].indexed /\ ledger[i].content_hash \in hist.index_ok

\* C17: a ledger record whose archive is raw/<stem>.<ext> has its projection,
\* if it has one, at mlib/<stem>.md.
C17_ProjectionPlacement ==
    \A i \in 1..Len(ledger) :
       (ledger[i].archive_path.dir = "raw" /\ IsSome(ledger[i].projection_path)) =>
          Unwrap(ledger[i].projection_path) =
             [dir |-> "mlib", name |-> ledger[i].archive_path.name, ext |-> "md"]

\* the ledger holds a record the migration moved under raw/ with its
\* projection, and a record whose projection was backfilled after it failed
C17_Witness ==
    /\ \E i \in 1..Len(ledger) :
          /\ ledger[i].archive_path = MigratedLegacyArchive
          /\ IsSome(ledger[i].projection_path)
    /\ \E i \in 1..Len(ledger) :
          /\ ~ledger[i].indexed /\ ledger[i].content_hash \in hist.index_ok
          /\ IsSome(ledger[i].projection_path)

\* C19: a call of archive_and_index on a source not yet archived in which the
\* projection or the indexer fails returns Ok, has written the archive, and
\* has appended exactly one record, with indexed=false, and with no
\* projection_path when it was the projection that failed.
C19_DegradedArchivingRecords ==
    (fnIn # <<>> /\ fnIn.fault \in {"projection", "index"}) =>
       /\ fnOut.ok /\ ~fnOut.deduped
       /\ fnOut.archived
       /\ fnOut.appended
       /\ ~fnOut.record.indexed
       /\ fnIn.fault = "projection" => ~IsSome(fnOut.record.projection_path)

\* the indexer failed on the second archive of the ledger, whose projection
\* was written
C19_Witness ==
    /\ fnIn # <<>>
    /\ fnIn.fault = "index"
    /\ fnIn.ledger_len > 0
    /\ IsSome(fnOut.record.projection_path)

(***************************************************************************)
(* Specification SpecDistill: the distillation step of run_once            *)
(* (watcher.rs l. 469-585) on the ledgers, archives and states a cycle can *)
(* bring to it.  The clock stands at DistillNow; every transcript has at   *)
(* most one archive in the ledger, made earlier or in this very second.    *)
(***************************************************************************)
DistillNow == DefaultConfig.idle_secs + 40

\* the ledger line of the archive of `source` made at time t
DistillRecord(source, t, indexed) ==
    Unwrap(archive_and_index(<<>>, <<>>, FALSE, source, 1, 1, t,
                             IF indexed THEN "none" ELSE "index").record)

\* ledgers in the order of their appends
DistillLedgers ==
    LET recs == {DistillRecord(s, t, i) : s \in Sources, t \in {0, 40, 41, DistillNow},
                                          i \in BOOLEAN}
    IN  {<<>>} \cup {<<r>> : r \in recs}
        \cup {pair \in recs \X recs :
                 /\ pair[1].source_path # pair[2].source_path
                 /\ pair[1].created_at_epoch_secs <= pair[2].created_at_epoch_secs}

DistillConfigs ==
    {[DefaultConfig EXCEPT !.distill_mode = "manual"]}
    \cup {[DefaultConfig EXCEPT !.distill_mode = "idle", !.max_per_cycle = m] : m \in {1, 2}}

InitDistill ==
    /\ now = DistillNow
    /\ sessions = InitSessions
    /\ inbox = 0
    /\ ledger \in DistillLedgers
    /\ \E kept \in SUBSET LedgerPaths(ledger) : files = [p \in kept |-> 1]
    /\ ledgerTorn = FALSE
    /\ chanMap = <<>>
    /\ chanMapTorn = FALSE
    /\ stateFile = NoFile
    /\ memoryLog = <<>>
    /\ cfg \in DistillConfigs
    /\ pc = "distill"
    /\ \E last \in {None, Some(0), Some(200)}, done \in SUBSET LedgerPaths(ledger) :
          st = [DefaultState EXCEPT
                  !.last_heartbeat_epoch_secs = DistillNow,
                  !.last_distill_trigger_epoch_secs = last,
                  !.distilled_archives = [p \in done |-> 0]]
    /\ \E targets \in {<<>>, <<KeyDiscord>>} :
          cyc = [EmptyCycle EXCEPT
                   !.usage = Some(to_snapshot(KeyMain, 10, ContextTokens, DistillNow)),
                   !.targets = targets]
    /\ trace = <<>>
    /\ hist = [distilled |-> {}, deleted |-> {}, index_ok |-> {}, notified |-> {},
               triggered |-> <<>>]
    /\ budget = [cycles |-> 1, faults |-> 0, appends |-> 0, calls |-> 0]
    /\ call = <<>>
    /\ fnIn = <<>>
    /\ fnOut = <<>>

NextDistill ==
    \/ DistillStep
    \/ DistillOne

SpecDistill == InitDistill /\ [][NextDistill]_vars

(***************************************************************************)
(* Properties of the distillation step (specification SpecDistill).        *)
(***************************************************************************)
FirstN(seq, n) == SubSeq(seq, 1, IF Len(seq) < n THEN Len(seq) ELSE n)

\* the step may distill: idle mode, no compaction target, cooldown over (and
\* the ledger can be read)
DistillGate ==
    /\ cfg.distill_mode = "idle"
    /\ ReadLedgerOk(ledgerTorn)
    /\ cyc.targets = <<>>
    /\ \/ ~IsSome(st.last_distill_trigger_epoch_secs)
       \/ CapturedAt - Unwrap(st.last_distill_trigger_epoch_secs) >= cfg.cooldown_secs

\* a record that may be distilled, whatever its age
Distillable(r) ==
    /\ r.indexed
    /\ Exists(files, r.archive_path)
    /\ r.archive_path \notin DOMAIN st.distilled_archives

\* C22 as the specification states it: the step distils, oldest first and at
\* most max_per_cycle of them, the records that are indexed, on disk, not yet
\* distilled and each older than idle_secs by its own created_at.
C22_IdleDistillSelectionAsStated ==
    [][pc = "distill" =>
          cyc'.candidates =
             IF DistillGate
             THEN FirstN(SelectSeq(SortByCreated(ledger),
                                   LAMBDA r : /\ Distillable(r)
                                              /\ CapturedAt - r.created_at_epoch_secs
                                                    >= cfg.idle_secs),
                         cfg.max_per_cycle)
             ELSE <<>>]_vars

\* C22, amended: the age that counts is that of the newest ledger record.  If
\* now - max(created_at) < idle_secs nothing is distilled; otherwise the step
\* distils, oldest first and at most max_per_cycle of them, the records that
\* are indexed, on disk and not yet distilled.
C22_IdleDistillSelection ==
    [][pc = "distill" =>
          cyc'.candidates =
             IF /\ DistillGate
                /\ \A i \in 1..Len(ledger) :
                      CapturedAt - ledger[i].created_at_epoch_secs >= cfg.idle_secs
             THEN FirstN(SelectSeq(SortByCreated(ledger), Distillable),
                         cfg.max_per_cycle)
             ELSE <<>>]_vars

\* of two records that may be distilled the step has taken the older one only
C22_Witness ==
    /\ pc = "distill_run"
    /\ cfg.max_per_cycle = 1
    /\ Len(ledger) = 2
    /\ \A i \in 1..2 : Distillable(ledger[i])
    /\ ledger[1].created_at_epoch_secs < ledger[2].created_at_epoch_secs
    /\ cyc.candidates = <<ledger[1]>>

(***************************************************************************)
(* Specification SpecSummary: distill.rs distill_summary and               *)
(* append_distilled_summary on the answers a remote backend can give.  A   *)
(* text is a sequence of lines; a line of the answer is known by the class *)
(* the tests of sanitize_model_summary put it in:                          *)
(*   blank     nothing but white space                                     *)
(*   json      looks_like_json_blob, such as {"type":"message"}            *)
(*   fragment  looks_like_structured_fragment or the untrusted-content     *)
(*             marker, such as a code fence                                *)
(*   escaped   only escaped white space, which clean_candidate_text turns  *)
(*             into nothing                                                *)
(*   heading   starts with #                                               *)
(*   dash      starts with "- "                                            *)
(*   star      starts with "* "                                            *)
(*   plain     any other text                                              *)
(***************************************************************************)
MaxLines == 4

MIN_MODEL_BULLETS == 3
MAX_MODEL_LINES == 80
MAX_SIGNAL_LINES == 20
MAX_FALLBACK_LINES == 12
MAX_CANDIDATE_CHARS == 512
MAX_SUMMARY_CHARS == 12000

LineKinds == {"blank", "json", "fragment", "escaped", "heading", "dash", "star", "plain"}

ModelLine(kind) == [kind |-> kind, text |-> "t"]

looks_like_json_blob(line) == line.kind = "json"

looks_like_structured_fragment(line) == line.kind = "fragment"

\* distill.rs clean_candidate_text: None when nothing is left of the line
clean_candidate_text(line) == IF line.kind \in {"blank", "escaped"} THEN None ELSE Some(line)

Take(seq, n) == SubSeq(seq, 1, IF Len(seq) < n THEN Len(seq) ELSE n)

RECURSIVE sanitize_lines_no_minimum(_, _, _)
\* the loop of sanitize_model_summary, as a bug would have it: the bullets
\* are not counted against MIN_MODEL_BULLETS
sanitize_lines_no_minimum(todo, lines, bullet_count) ==
    IF todo = <<>> THEN Some(lines)
    ELSE LET line == Head(todo)
         IN  IF line.kind = "blank" \/ looks_like_json_blob(line)
                \/ looks_like_structured_fragment(line)
             THEN sanitize_lines_no_minimum(Tail(todo), lines, bullet_count)
             ELSE IF ~IsSome(clean_candidate_text(line)) THEN None
             ELSE sanitize_lines_no_minimum(
                     Tail(todo),
                     Append(lines, IF line.kind = "heading" THEN line
                                   ELSE [line EXCEPT !.kind = "dash"]),
                     bullet_count)

RECURSIVE sanitize_lines(_, _, _)
\* distill.rs sanitize_model_summary, l. 963-1002: lines are the lines kept
\* so far, bullet_count the bullets among them
sanitize_lines(todo, lines, bullet_count) ==
    LET result == IF bullet_count < MIN_MODEL_BULLETS THEN None ELSE Some(lines)
    IN  IF todo = <<>> THEN result
        ELSE LET line == Head(todo)
                 cleaned == clean_candidate_text(line)
                 normalized == IF line.kind = "heading" THEN Unwrap(cleaned)
                               ELSE [Unwrap(cleaned) EXCEPT !.kind = "dash"]
                 count == IF line.kind = "heading" THEN bullet_count
                          ELSE bullet_count + 1
             IN  IF line.kind = "blank" \/ looks_like_json_blob(line)
                    \/ looks_like_structured_fragment(line)
                 THEN sanitize_lines(Tail(todo), lines, bullet_count)
                 ELSE IF ~IsSome(cleaned) THEN None
                 ELSE IF Len(lines) + 1 >= MAX_MODEL_LINES
                 THEN (IF count < MIN_MODEL_BULLETS THEN None
                       ELSE Some(Append(lines, normalized)))
                 ELSE sanitize_lines(Tail(todo), Append(lines, normalized), count)

sanitize_model_summary(summary) == sanitize_lines(summary, <<>>, 0)

\* distill.rs extract_signal_lines over the lines of the archive
extract_signal_lines(raw) ==
    LET candidates == SelectSeq(raw, LAMBDA l : l.kind # "blank")
        signals == Take(SelectSeq(candidates, LAMBDA l : l.kind = "signal"),
                        MAX_SIGNAL_LINES)
    IN  IF signals = <<>> THEN Take(candidates, MAX_FALLBACK_LINES) ELSE signals

\* distill.rs LocalDistiller::distill, l. 1013-1037
LocalDistill(input) ==
    LET lines == extract_signal_lines(input.archive_text)
    IN  <<[kind |-> "heading", text |-> "Distilled Session Summary"],
          [kind |-> "dash", text |-> <<"session_id", input.session_id>>],
          [kind |-> "dash", text |-> <<"archive_path", input.archive_path>>],
          [kind |-> "dash", text |-> "extracted_signals:"]>>
        \o [i \in 1..Len(lines) |-> [kind |-> "sub", text |-> lines[i].text]]

\* the characters of a text whose lines are as long as clean_candidate_text
\* lets them be, each with its "- " and its line end
SummaryChars(summary) == Len(summary) * (MAX_CANDIDATE_CHARS + 3)

\* distill.rs clamp_summary, l. 1004-1011
clamp_summary(summary) ==
    IF SummaryChars(summary) <= MAX_SUMMARY_CHARS THEN summary
    ELSE Append(Take(summary, MAX_SUMMARY_CHARS \div (MAX_CANDIDATE_CHARS + 3)),
                [kind |-> "plain", text |-> "[summary truncated]"])

\* distill.rs distill_summary, l. 1196-1246.  remote is "none" when no remote
\* backend is configured, "err" when its call fails, "ok" when it answers.
distill_summary(input, remote, response) ==
    LET cleaned == sanitize_model_summary(response)
    IN  IF remote = "ok" /\ IsSome(cleaned)
        THEN [provider |-> "remote", summary |-> clamp_summary(Unwrap(cleaned))]
        ELSE [provider |-> "local", summary |-> clamp_summary(LocalDistill(input))]

\* the inputs of the distillation: an archive with and without signal lines
SummaryInputs ==
    {[session_id |-> SrcA.stem,
      archive_path |-> snapshot_path(SrcA, 0),
      archive_text |-> text] :
        text \in {<<[kind |-> "chatter", text |-> "hello"],
                    [kind |-> "signal", text |-> "todo: ship"]>>,
                  <<[kind |-> "chatter", text |-> "hello"]>>}}

ModelAnswers == UNION {[1..n -> {ModelLine(k) : k \in LineKinds}] : n \in 0..MaxLines}

InitSummary ==
    /\ now = 0
    /\ sessions = InitSessions
    /\ inbox = 0
    /\ files = <<>>
    /\ ledger = <<>>
    /\ ledgerTorn = FALSE
    /\ chanMap = <<>>
    /\ chanMapTorn = FALSE
    /\ stateFile = NoFile
    /\ memoryLog = <<>>
    /\ cfg = DefaultConfig
    /\ pc = "distill_run"
    /\ st = DefaultState
    /\ cyc = EmptyCycle
    /\ trace = <<>>
    /\ hist = [distilled |-> {}, deleted |-> {}, index_ok |-> {}, notified |-> {},
               triggered |-> <<>>]
    /\ budget = [cycles |-> 0, faults |-> 0, appends |-> 0, calls |-> 0]
    /\ call = <<>>
    /\ \E input \in SummaryInputs, remote \in {"none", "err", "ok"},
          response \in ModelAnswers :
          /\ remote # "ok" => response = <<>>
          /\ fnIn = [input |-> input, remote |-> remote, response |-> response]
    /\ fnOut = <<>>

\* distill.rs run_distillation, l. 1539-1545: the summary is made and
\* appended to the daily memory file under the heading of the session
RunDistillation ==
    /\ pc = "distill_run"
    /\ fnOut = <<>>
    /\ LET out == distill_summary(fnIn.input, fnIn.remote, fnIn.response)
       IN  /\ fnOut' = out
           /\ memoryLog' = Append(memoryLog, [session_id |-> fnIn.input.session_id,
                                               summary |-> out.summary])
    /\ pc' = "retention"
    /\ UNCHANGED <<now, sessions, inbox, files, ledger, ledgerTorn, chanMap,
                   chanMapTorn, stateFile, cfg, st, cyc, trace, hist, budget,
                   call, fnIn>>

NextSummary == RunDistillation

SpecSummary == InitSummary /\ [][NextSummary]_vars

(***************************************************************************)
(* Properties of the distillation summary (specification SpecSummary).     *)
(***************************************************************************)
\* the lines of the answer that are neither blank nor JSON blobs nor fragments
ProseLines(response) ==
    SelectSeq(response, LAMBDA l : l.kind \notin {"blank", "json", "fragment"})

\* the bullets of a text: its lines other than blank lines and # headings
Bullets(lines) == Len(SelectSeq(lines, LAMBDA l : l.kind \notin {"blank", "heading"}))

Written == memoryLog[Len(memoryLog)].summary

WrittenIsLocal == Written = clamp_summary(LocalDistill(fnIn.input))

C25_LayoutMigrationPostcondition ==
    LET n == normalize_archive_layout(files, ledger)
    IN  \A i \in 1..Len(ledger) :
           LET old == ledger[i]
               new == n.ledger[i]
               old_projection == Unwrap(old.projection_path)
               new_projection == Unwrap(new.projection_path)
           IN  (~ledgerTorn /\ old.archive_path.dir = "flat"
                /\ Exists(files, old.archive_path)) =>
                  /\ new.archive_path.dir = "raw"
                  /\ Exists(n.files, new.archive_path)
                  /\ n.files[new.archive_path] = files[old.archive_path]
                  /\ (IsSome(old.projection_path) /\ Exists(files, old_projection)) =>
                        /\ IsSome(new.projection_path)
                        /\ new_projection.dir = "mlib"
                        /\ Exists(n.files, new_projection)
                        /\ n.files[new_projection] = files[old_projection]

(***************************************************************************)
(* Chunked distillation of an oversized archive (distill.rs                *)
(* stream_archive_chunks and run_chunked_archive_distillation).  An        *)
(* archive is the sequence of its lines, each line given by line_bytes,    *)
(* the length of the line plus one for its newline.                        *)
(***************************************************************************)
MaxArchiveLines == 5

DEFAULT_DISTILL_CHUNK_BYTES == 512 * 1024

\* line_bytes of a line: an empty line, short lines, and one line that is
\* five chunk targets long (a tool result or an attachment on one line)
LineBytes == {1, 2, 3, 10}

ChunkTargets == {2, 3}

\* distill_max_chunks, l. 476-491: a value read from the environment is
\* used only when it parses and is positive
MaxChunkLimits == {1, 2, 3}

Archives == UNION {[1..n -> LineBytes] : n \in 0..MaxArchiveLines}

RECURSIVE SumBytes(_)
SumBytes(lines) ==
    IF lines = <<>> THEN 0 ELSE Head(lines) + SumBytes(Tail(lines))

\* fs::metadata(path).len(): the last line of a file may lack its newline
archive_file_size(lines, trailing_newline) ==
    IF lines = <<>> \/ trailing_newline THEN SumBytes(lines) ELSE SumBytes(lines) - 1

\* the loop of stream_archive_chunks without the max_chunks break
RECURSIVE stream_lines_unbounded(_, _, _, _, _, _, _)
stream_lines_unbounded(lines, i, chunk_target_bytes, max_chunks, current_chunk, current_bytes, chunks) ==
    IF i > Len(lines)
    THEN [chunks |-> chunks, current_chunk |-> current_chunk,
          truncated |-> FALSE, consumed |-> Len(lines)]
    ELSE LET line_bytes == lines[i]
         IN  IF current_chunk # <<>> /\ current_bytes + line_bytes > chunk_target_bytes
             THEN stream_lines_unbounded(lines, i + 1, chunk_target_bytes, max_chunks,
                                         <<line_bytes>>, line_bytes,
                                         Append(chunks, current_chunk))
             ELSE stream_lines_unbounded(lines, i + 1, chunk_target_bytes, max_chunks,
                                         Append(current_chunk, line_bytes),
                                         current_bytes + line_bytes, chunks)

\* distill.rs stream_archive_chunks, l. 1449-1467: the loop over the lines.
\* chunks are the chunks handed to on_chunk so far, consumed the number of
\* lines that went into a chunk.
RECURSIVE stream_lines(_, _, _, _, _, _, _)
stream_lines(lines, i, chunk_target_bytes, max_chunks, current_chunk, current_bytes, chunks) ==
    IF i > Len(lines)
    THEN [chunks |-> chunks, current_chunk |-> current_chunk,
          truncated |-> FALSE, consumed |-> Len(lines)]
    ELSE LET line_bytes == lines[i]
         IN  IF current_chunk # <<>> /\ current_bytes + line_bytes > chunk_target_bytes
             THEN LET emitted == Append(chunks, current_chunk)
                  IN  IF Len(emitted) >= max_chunks
                      THEN [chunks |-> emitted, current_chunk |-> <<>>,
                            truncated |-> TRUE, consumed |-> i - 1]
                      ELSE stream_lines(lines, i + 1, chunk_target_bytes, max_chunks,
                                        <<line_bytes>>, line_bytes, emitted)
             ELSE stream_lines(lines, i + 1, chunk_target_bytes, max_chunks,
                               Append(current_chunk, line_bytes),
                               current_bytes + line_bytes, chunks)

\* stream_archive_chunks without the chunk of the lines left after the loop
stream_archive_chunks_drop_rest(lines, chunk_target_bytes, max_chunks) ==
    LET loop == stream_lines(lines, 1, chunk_target_bytes, max_chunks, <<>>, 0, <<>>)
    IN  [chunk_count |-> Len(loop.chunks), truncated |-> loop.truncated,
         chunks |-> loop.chunks, consumed |-> loop.consumed]

\* distill.rs stream_archive_chunks, l. 1432-1483: after the loop the rest
\* is emitted, and an archive without lines gives one empty chunk
stream_archive_chunks(lines, chunk_target_bytes, max_chunks) ==
    LET loop == stream_lines(lines, 1, chunk_target_bytes, max_chunks, <<>>, 0, <<>>)
        chunks == IF loop.truncated THEN loop.chunks
                  ELSE IF loop.current_chunk = <<>>
                       THEN IF loop.chunks = <<>> THEN <<<<>>>> ELSE loop.chunks
                       ELSE Append(loop.chunks, loop.current_chunk)
    IN  [chunk_count |-> Len(chunks), truncated |-> loop.truncated,
         chunks |-> chunks, consumed |-> loop.consumed]

\* distill.rs ChunkSummaryRollup::render, l. 1390-1401: the head of the
\* rolled-up summary
render(session_id, archive_path, chunk_count, chunk_target_bytes, max_chunks, truncated) ==
    <<[key |-> "session_id", value |-> session_id],
      [key |-> "archive_path", value |-> archive_path],
      [key |-> "chunk_count", value |-> chunk_count],
      [key |-> "chunk_target_bytes", value |-> chunk_target_bytes]>>
    \o (IF truncated
        THEN <<[key |-> "chunking_truncated", value |-> TRUE, max_chunks |-> max_chunks]>>
        ELSE <<>>)

InitChunks ==
    /\ now = 0
    /\ sessions = InitSessions
    /\ inbox = 0
    /\ files = <<>>
    /\ ledger = <<>>
    /\ ledgerTorn = FALSE
    /\ chanMap = <<>>
    /\ chanMapTorn = FALSE
    /\ stateFile = NoFile
    /\ memoryLog = <<>>
    /\ cfg = DefaultConfig
    /\ pc = "distill_run"
    /\ st = DefaultState
    /\ cyc = EmptyCycle
    /\ trace = <<>>
    /\ hist = [distilled |-> {}, deleted |-> {}, index_ok |-> {}, notified |-> {},
               triggered |-> <<>>]
    /\ budget = [cycles |-> 0, faults |-> 0, appends |-> 0, calls |-> 0]
    /\ call = <<>>
    /\ \E lines \in Archives, trailing_newline \in BOOLEAN,
          chunk_target_bytes \in ChunkTargets, max_chunks \in MaxChunkLimits :
          /\ ~trailing_newline => lines # <<>> /\ lines[Len(lines)] > 1
          /\ fnIn = [session_id |-> SrcA.stem,
                     archive_path |-> snapshot_path(SrcA, 0),
                     lines |-> lines,
                     archive_size_bytes |-> archive_file_size(lines, trailing_newline),
                     chunk_target_bytes |-> chunk_target_bytes,
                     max_chunks |-> max_chunks]
    /\ fnOut = <<>>

\* distill.rs run_chunked_archive_distillation, l. 1485-1533: the archive is
\* streamed, every chunk is summarised, and the rolled-up summary is
\* appended to the daily memory file
RunChunkedArchiveDistillation ==
    /\ pc = "distill_run"
    /\ fnOut = <<>>
    /\ LET streamed == stream_archive_chunks(fnIn.lines, fnIn.chunk_target_bytes,
                                             fnIn.max_chunks)
           summary == clamp_summary(render(fnIn.session_id, fnIn.archive_path,
                                           streamed.chunk_count, fnIn.chunk_target_bytes,
                                           fnIn.max_chunks, streamed.truncated))
       IN  /\ fnOut' = [chunk_count |-> streamed.chunk_count,
                        chunk_target_bytes |-> fnIn.chunk_target_bytes,
                        truncated |-> streamed.truncated,
                        chunks |-> streamed.chunks,
                        consumed |-> streamed.consumed,
                        summary |-> summary]
           /\ memoryLog' = Append(memoryLog, [session_id |-> fnIn.session_id,
                                               summary |-> summary])
    /\ pc' = "retention"
    /\ UNCHANGED <<now, sessions, inbox, files, ledger, ledgerTorn, chanMap,
                   chanMapTorn, stateFile, cfg, st, cyc, trace, hist, budget,
                   call, fnIn>>

NextChunks == RunChunkedArchiveDistillation

SpecChunks == InitChunks /\ [][NextChunks]_vars

(***************************************************************************)
(* Properties of chunk streaming (specification SpecChunks).               *)
(***************************************************************************)
Streamed == fnOut # <<>>

\* the lines of the chunks handed to on_chunk, in order
RECURSIVE Flatten(_)
Flatten(chunks) ==
    IF chunks = <<>> THEN <<>> ELSE Head(chunks) \o Flatten(Tail(chunks))

LinesFitTarget == \A i \in 1..Len(fnIn.lines) : fnIn.lines[i] <= fnIn.chunk_target_bytes

ReportsTruncation ==
    \E i \in 1..Len(fnOut.summary) : /\ fnOut.summary[i].key = "chunking_truncated"
                                     /\ fnOut.summary[i].value = TRUE

\* the chunks are cut where, and only where, the next line would take a
\* chunk that already holds a line over the target; at most max_chunks
\* chunks are emitted; truncated is returned exactly when the stream
\* stopped at max_chunks with lines left
ChunkStreamingBound ==
    /\ Flatten(fnOut.chunks) = SubSeq(fnIn.lines, 1, fnOut.consumed)
    /\ \A k \in 1..Len(fnOut.chunks) :
          LET chunk == fnOut.chunks[k]
              before == Len(Flatten(SubSeq(fnOut.chunks, 1, k)))
          IN  /\ \A j \in 2..Len(chunk) :
                    SumBytes(SubSeq(chunk, 1, j)) <= fnIn.chunk_target_bytes
              /\ before < Len(fnIn.lines) =>
                    /\ chunk # <<>>
                    /\ SumBytes(chunk) + fnIn.lines[before + 1] > fnIn.chunk_target_bytes
    /\ fnOut.chunk_count = Len(fnOut.chunks)
    /\ fnOut.chunk_count <= fnIn.max_chunks
    /\ fnOut.truncated <=> /\ fnOut.chunk_count = fnIn.max_chunks
                           /\ fnOut.consumed < Len(fnIn.lines)
    /\ fnOut.truncated <=> ReportsTruncation
    /\ memoryLog = <<[session_id |-> fnIn.session_id, summary |-> fnOut.summary]>>

\* C26 as stated: the chunk streaming bound, and an archive of 5 MiB at a
\* target of 524288 bytes (ten targets) with max_chunks = 2 is truncated
\* and its summary says so.
C26_ChunkStreamingBoundAsStated ==
    Streamed =>
       /\ ChunkStreamingBound
       /\ ( /\ fnIn.archive_size_bytes * DEFAULT_DISTILL_CHUNK_BYTES
                  = 5 * 1024 * 1024 * fnIn.chunk_target_bytes
            /\ fnIn.max_chunks = 2 )
          => fnOut.truncated /\ ReportsTruncation

\* C26 (amended): stream_archive_chunks emits a chunk whenever adding the
\* next line would take a chunk that holds a line over the target, never
\* emits more than max_chunks chunks, and returns truncated = true exactly
\* when it stopped at max_chunks with lines left; an archive larger than
\* max_chunks targets whose lines each fit the target is truncated and the
\* rolled-up summary has the line chunking_truncated: true.
C26_ChunkStreamingBound ==
    Streamed =>
       /\ ChunkStreamingBound
       /\ ( /\ fnIn.archive_size_bytes > fnIn.max_chunks * fnIn.chunk_target_bytes
            /\ LinesFitTarget )
          => fnOut.truncated /\ ReportsTruncation

C26_Witness ==
    /\ Streamed
    /\ fnIn.max_chunks = 2
    /\ fnIn.archive_size_bytes > 2 * fnIn.chunk_target_bytes
    /\ LinesFitTarget
    /\ fnOut.truncated
    /\ fnOut.chunk_count = 2
    /\ ReportsTruncation

CeilDiv(a, b) == (a + b - 1) \div b

ExpectedChunks == CeilDiv(fnIn.archive_size_bytes, fnIn.chunk_target_bytes)

\* every chunk but the last holds exactly chunk_target_bytes, and the last
\* holds no more
ChunksFilled ==
    /\ \A k \in 1..(Len(fnOut.chunks) - 1) :
          SumBytes(fnOut.chunks[k]) = fnIn.chunk_target_bytes
    /\ SumBytes(fnOut.chunks[Len(fnOut.chunks)]) <= fnIn.chunk_target_bytes

\* C27 as stated: without truncation chunk_count is
\* ceil(archive_size_bytes / chunk_target_bytes).
C27_ChunkCountAsStated ==
    (Streamed /\ ~fnOut.truncated) => fnOut.chunk_count = ExpectedChunks

\* C27 (amended): without truncation chunk_count is at least
\* ceil(archive_size_bytes / chunk_target_bytes) when every line fits the
\* target, and equals it for a non-empty archive whose lines fill every
\* chunk but the last exactly to the target.
C27_ChunkCount ==
    (Streamed /\ ~fnOut.truncated) =>
       /\ LinesFitTarget => fnOut.chunk_count >= ExpectedChunks
       /\ (fnIn.lines # <<>> /\ ChunksFilled) => fnOut.chunk_count = ExpectedChunks

C27_Witness ==
    /\ Streamed
    /\ ~fnOut.truncated
    /\ LinesFitTarget
    /\ ChunksFilled
    /\ fnOut.chunk_count = 3
    /\ ExpectedChunks = 3
    /\ Len(fnIn.lines) > 3

(***************************************************************************)
(* Two watcher processes on one MOON_HOME (moon_watch.rs run, watcher.rs   *)
(* run_daemon and run_once).  Of a cycle only its accesses to the state    *)
(* file are kept: the load at its start and the save at its end; call      *)
(* holds, for each process, its flags, its position and its loaded state.  *)
(***************************************************************************)
Watchers == {"w1", "w2"}

\* MoonWatchOptions, moon_watch.rs l. 6-10
MoonWatchOptions == [once : BOOLEAN, daemon : BOOLEAN]

StoppedWatcher ==
    [opts |-> [once |-> FALSE, daemon |-> FALSE], pc |-> "stopped", state |-> DefaultState]

InitWatchers ==
    /\ now = 0
    /\ sessions = InitSessions
    /\ inbox = 0
    /\ files = <<>>
    /\ ledger = <<>>
    /\ ledgerTorn = FALSE
    /\ chanMap = <<>>
    /\ chanMapTorn = FALSE
    /\ stateFile = NoFile
    /\ memoryLog = <<>>
    /\ cfg = DefaultConfig
    /\ pc = "idle"
    /\ st = DefaultState
    /\ cyc = EmptyCycle
    /\ trace = <<>>
    /\ hist = [distilled |-> {}, deleted |-> {}, index_ok |-> {}, notified |-> {},
               triggered |-> <<>>]
    /\ budget = [cycles |-> 0, faults |-> 0, appends |-> 0, calls |-> 0]
    /\ call = [w \in Watchers |-> StoppedWatcher]
    /\ fnIn = <<>>
    /\ fnOut = <<>>

\* moon_watch.rs run, l. 12-27: both flags together are refused; --daemon
\* enters run_daemon, anything else runs one cycle
StartWatcher(w) ==
    /\ call[w].pc = "stopped"
    /\ budget.calls < MaxCalls
    /\ \E opts \in MoonWatchOptions :
          call' = [call EXCEPT ![w] =
                      IF opts.once /\ opts.daemon THEN StoppedWatcher
                      ELSE [opts |-> opts, pc |-> "starting", state |-> DefaultState]]
    /\ budget' = [budget EXCEPT !.calls = @ + 1]
    /\ UNCHANGED <<now, sessions, inbox, files, ledger, ledgerTorn, chanMap,
                   chanMapTorn, stateFile, memoryLog, cfg, pc, st, cyc, trace,
                   hist, fnIn, fnOut>>

\* watcher.rs run_once, l. 188-191: the persisted state is loaded
WatcherLoad(w) ==
    /\ call[w].pc = "starting"
    /\ budget.cycles < MaxCycles
    /\ LoadOk(stateFile)
    /\ call' = [call EXCEPT ![w].pc = "cycle", ![w].state = LoadState(stateFile)]
    /\ budget' = [budget EXCEPT !.cycles = @ + 1]
    /\ UNCHANGED <<now, sessions, inbox, files, ledger, ledgerTorn, chanMap,
                   chanMapTorn, stateFile, memoryLog, cfg, pc, st, cyc, trace,
                   hist, fnIn, fnOut>>

\* watcher.rs run_once, l. 194-197, 288-289 and 603: the heartbeat and, when
\* the cycle archived, the trigger time are set in the loaded state, which
\* is saved whole; run_daemon (l. 626-632) sleeps and starts the next cycle
WatcherSave(w) ==
    /\ call[w].pc = "cycle"
    /\ \E archived \in BOOLEAN :
          LET heartbeat == [call[w].state EXCEPT !.last_heartbeat_epoch_secs = now]
              state == IF archived
                       THEN [heartbeat EXCEPT !.last_archive_trigger_epoch_secs = Some(now)]
                       ELSE heartbeat
          IN  /\ stateFile' = WholeFile(state)
              /\ call' = [call EXCEPT ![w].state = state,
                                      ![w].pc = IF call[w].opts.daemon THEN "starting"
                                                ELSE "stopped"]
    /\ UNCHANGED <<now, sessions, inbox, files, ledger, ledgerTorn, chanMap,
                   chanMapTorn, memoryLog, cfg, pc, st, cyc, trace, hist, budget,
                   fnIn, fnOut>>

TickWatchers ==
    /\ now < MaxEpoch
    /\ now' = now + 1
    /\ UNCHANGED <<sessions, inbox, files, ledger, ledgerTorn, chanMap, chanMapTorn,
                   stateFile, memoryLog, cfg, pc, st, cyc, trace, hist, budget,
                   call, fnIn, fnOut>>

NextWatchers ==
    \/ \E w \in Watchers : StartWatcher(w)
    \/ \E w \in Watchers : WatcherLoad(w)
    \/ \E w \in Watchers : WatcherSave(w)
    \/ TickWatchers

SpecWatchers == InitWatchers /\ [][NextWatchers]_vars

(***************************************************************************)
(* Properties of concurrent watchers (specification SpecWatchers).         *)
(***************************************************************************)
InCycle(w) == call[w].pc = "cycle"

\* C28: at most one watcher process is inside a run_once cycle at a time:
\* no watcher is between its load and its save of the state file while
\* another one is.
C28_SingleWatcher ==
    Cardinality({w \in Watchers : InCycle(w)}) <= 1

(***************************************************************************)
(* config.rs load_config as a function of the config file and of the       *)
(* environment, for the two fields of MoonWatcherConfig.                   *)
(***************************************************************************)
Unset == "unset"

\* what MOON_POLL_INTERVAL_SECS or MOON_COOLDOWN_SECS holds: nothing, an
\* empty string, text that is no number, or a number
EnvValues == {Unset, "", "abc", "0", "60"}

\* str::parse::<u64> of the trimmed value
parse_u64(raw) ==
    IF raw = "0" THEN Some(0) ELSE IF raw = "60" THEN Some(60) ELSE None

\* config.rs env_or_u64, l. 141-146
env_or_u64(value, fallback) ==
    IF value = Unset THEN fallback
    ELSE IF IsSome(parse_u64(value)) THEN Unwrap(parse_u64(value)) ELSE fallback

\* moon.toml: absent, not parseable as PartialMoonConfig, or parsed with or
\* without a [watcher] table (which has both fields, l. 20-24)
FileConfigs ==
    {[status |-> "absent", watcher |-> None], [status |-> "torn", watcher |-> None],
     [status |-> "whole", watcher |-> None]}
    \cup {[status |-> "whole",
           watcher |-> Some([poll_interval_secs |-> p, cooldown_secs |-> c])] :
             p \in {0, 45}, c \in {0, 45}}

ConfigOk(c) == [ok |-> TRUE, cfg |-> c, error |-> ""]
ConfigErr(e) == [ok |-> FALSE, cfg |-> DefaultConfig, error |-> e]

\* config.rs merge_file_config, l. 249-279
merge_file_config(base, file) ==
    IF file.status = "absent" THEN ConfigOk(base)
    ELSE IF file.status = "torn" THEN ConfigErr("failed to parse moon config")
    ELSE IF IsSome(file.watcher)
         THEN ConfigOk([base EXCEPT
                  !.poll_interval_secs = Unwrap(file.watcher).poll_interval_secs,
                  !.cooldown_secs = Unwrap(file.watcher).cooldown_secs])
         ELSE ConfigOk(base)

\* config.rs validate, l. 188-226, for the fields kept here
validate(c) ==
    IF c.poll_interval_secs = 0
    THEN ConfigErr("invalid watcher poll interval: must be >= 1 second")
    ELSE IF c.max_per_cycle = 0
    THEN ConfigErr("invalid distill max per cycle: must be >= 1")
    ELSE IF c.idle_secs = 0
    THEN ConfigErr("invalid distill idle secs: must be >= 1")
    ELSE ConfigOk(c)

\* config.rs load_config, l. 281-319
load_config(file, env) ==
    LET merged == merge_file_config(DefaultConfig, file)
    IN  IF ~merged.ok THEN merged
        ELSE validate([merged.cfg EXCEPT
                 !.poll_interval_secs =
                     env_or_u64(env.MOON_POLL_INTERVAL_SECS, merged.cfg.poll_interval_secs),
                 !.cooldown_secs =
                     env_or_u64(env.MOON_COOLDOWN_SECS, merged.cfg.cooldown_secs)])

InitConfig ==
    /\ now = 0
    /\ sessions = InitSessions
    /\ inbox = 0
    /\ files = <<>>
    /\ ledger = <<>>
    /\ ledgerTorn = FALSE
    /\ chanMap = <<>>
    /\ chanMapTorn = FALSE
    /\ stateFile = NoFile
    /\ memoryLog = <<>>
    /\ cfg = DefaultConfig
    /\ pc = "idle"
    /\ st = DefaultState
    /\ cyc = EmptyCycle
    /\ trace = <<>>
    /\ hist = [distilled |-> {}, deleted |-> {}, index_ok |-> {}, notified |-> {},
               triggered |-> <<>>]
    /\ budget = [cycles |-> 0, faults |-> 0, appends |-> 0, calls |-> 0]
    /\ call = <<>>
    /\ \E file \in FileConfigs, poll \in EnvValues, cooldown \in EnvValues :
          fnIn = [file |-> file,
                  env |-> [MOON_POLL_INTERVAL_SECS |-> poll, MOON_COOLDOWN_SECS |-> cooldown]]
    /\ fnOut = <<>>

\* watcher.rs run_once, l. 188-190: the configuration is loaded; an error
\* ends the cycle
LoadConfig ==
    /\ pc = "idle"
    /\ fnOut = <<>>
    /\ LET loaded == load_config(fnIn.file, fnIn.env)
       IN  /\ fnOut' = loaded
           /\ cfg' = IF loaded.ok THEN loaded.cfg ELSE cfg
           /\ pc' = IF loaded.ok THEN "inbound" ELSE "aborted"
    /\ UNCHANGED <<now, sessions, inbox, files, ledger, ledgerTorn, chanMap,
                   chanMapTorn, stateFile, memoryLog, st, cyc, trace, hist, budget,
                   call, fnIn>>

NextConfig == LoadConfig

SpecConfig == InitConfig /\ [][NextConfig]_vars

(***************************************************************************)
(* Properties of the configuration overlay (specification SpecConfig).     *)
(***************************************************************************)
\* the value a field has by the overlay rule: the environment's when it is
\* set, else the file's when it has one, else the default
Overlaid(value, field) ==
    IF value # Unset /\ IsSome(parse_u64(value)) THEN Unwrap(parse_u64(value))
    ELSE IF IsSome(fnIn.file.watcher) THEN Unwrap(fnIn.file.watcher)[field]
    ELSE DefaultConfig[field]

\* a value that is set to text which is no number
InvalidEnv(value) == value \notin {Unset, ""} /\ parse_u64(value) = None

\* a file that does not parse, or whose poll interval is out of range and
\* not overridden by the environment
InvalidFile ==
    \/ fnIn.file.status = "torn"
    \/ /\ IsSome(fnIn.file.watcher)
       /\ Unwrap(fnIn.file.watcher).poll_interval_secs = 0
       /\ fnIn.env.MOON_POLL_INTERVAL_SECS \in {Unset, ""}

\* C29: load_config applies the file and then the environment, the
\* environment winning where it is set, and returns an error when a value
\* of the file or of the environment is unparseable or out of range.
C29_ConfigOverlay ==
    fnOut # <<>> =>
       /\ fnOut.ok =>
             /\ fnOut.cfg.poll_interval_secs
                   = Overlaid(fnIn.env.MOON_POLL_INTERVAL_SECS, "poll_interval_secs")
             /\ fnOut.cfg.cooldown_secs
                   = Overlaid(fnIn.env.MOON_COOLDOWN_SECS, "cooldown_secs")
       /\ ( \/ InvalidEnv(fnIn.env.MOON_POLL_INTERVAL_SECS)
            \/ InvalidEnv(fnIn.env.MOON_COOLDOWN_SECS)
            \/ fnIn.env.MOON_POLL_INTERVAL_SECS = "0"
            \/ InvalidFile ) => ~fnOut.ok

\* C33: index retry.  A call of archive_and_index with a healthy indexer on
\* an unchanged source returns a record with indexed = true, also when the
\* ledger already holds the record of that source with indexed = false from
\* a call in which the indexer failed (its projection was written).
C33_IndexRetry ==
    (fnIn # <<>> /\ fnIn.fault = "none" /\ fnOut.ok /\ fnOut.deduped
       /\ IsSome(fnOut.record.projection_path))
    => fnOut.record.indexed

(***************************************************************************)
(* The distillation of one candidate in run_once (watcher.rs l. 538-553),  *)
(* on the archives and chunk targets of InitChunks.                        *)
(***************************************************************************)
\* watcher.rs l. 539-553: the archive is read whole with read_to_string and
\* handed to run_distillation, whatever its size; mode is the entry point
\* called, read_bytes what was read into memory at once
DistillCandidate ==
    /\ pc = "distill_run"
    /\ fnOut = <<>>
    /\ fnOut' = [mode |-> "run_distillation",
                 read_bytes |-> fnIn.archive_size_bytes]
    /\ memoryLog' = Append(memoryLog, [session_id |-> fnIn.session_id,
                                       archive_path |-> fnIn.archive_path])
    /\ pc' = "retention"
    /\ UNCHANGED <<now, sessions, inbox, files, ledger, ledgerTorn, chanMap,
                   chanMapTorn, stateFile, cfg, st, cyc, trace, hist, budget,
                   call, fnIn>>

NextMode == DistillCandidate

SpecMode == InitChunks /\ [][NextMode]_vars

\* C34: chunked mode choice.  An archive larger than the chunk target is
\* distilled with run_chunked_archive_distillation and never read whole
\* into memory; an archive at or below the target with run_distillation.
C34_ChunkedModeChoice ==
    fnOut # <<>> =>
       IF fnIn.archive_size_bytes > fnIn.chunk_target_bytes
       THEN /\ fnOut.mode = "run_chunked_archive_distillation"
            /\ fnOut.read_bytes <= fnIn.chunk_target_bytes
       ELSE fnOut.mode = "run_distillation"

(***************************************************************************)
(* qmd.rs collection_add_or_update against a qmd binary whose answers are  *)
(* drawn: fnIn says how each command it may be given answers.              *)
(***************************************************************************)
ARCHIVE_COLLECTION_MASK == "**/*.md"

\* the answers of the binary.  add: of the first `collection add` (exit
\* status and diagnostic); list: the Pattern line `collection list` shows for
\* the collection ("failed" when the command fails, "" when it shows none);
\* remove, readd, update: whether these commands succeed
QmdAnswers ==
    [add : {[success |-> TRUE, diagnostic |-> ""],
            [success |-> FALSE, diagnostic |-> "collection already exists"],
            [success |-> FALSE, diagnostic |-> "permission denied"]},
     list : {"failed", "", ARCHIVE_COLLECTION_MASK, "**/*.jsonl"},
     remove : BOOLEAN, readd : BOOLEAN, update : BOOLEAN, bin_found : BOOLEAN]

\* qmd.rs is_existing_collection_error, as a bug would have it
is_existing_collection_error_any(diagnostic) == TRUE

\* qmd.rs is_existing_collection_error, l. 22-25
is_existing_collection_error(diagnostic) == diagnostic = "collection already exists"

\* qmd.rs collection_pattern, l. 27-64, after .ok().flatten() of l. 91
collection_pattern(list) == IF list \in {"failed", ""} THEN None ELSE Some(list)

SyncOk(result, commands) == [ok |-> TRUE, result |-> result, commands |-> commands]
SyncErr(commands) == [ok |-> FALSE, result |-> "error", commands |-> commands]

\* qmd.rs collection_add_or_update, l. 66-153
collection_add_or_update(qmd) ==
    IF ~qmd.bin_found THEN SyncErr(<<>>)
    ELSE IF qmd.add.success THEN SyncOk("Added", <<"collection add">>)
    ELSE IF is_existing_collection_error(qmd.add.diagnostic)
    THEN LET existing_pattern == collection_pattern(qmd.list)
         IN  IF IsSome(existing_pattern) /\ Unwrap(existing_pattern) # ARCHIVE_COLLECTION_MASK
             THEN IF ~qmd.remove
                  THEN SyncErr(<<"collection add", "collection list", "collection remove">>)
                  ELSE IF qmd.readd
                  THEN SyncOk("Recreated", <<"collection add", "collection list",
                                             "collection remove", "collection add">>)
                  ELSE SyncErr(<<"collection add", "collection list",
                                 "collection remove", "collection add">>)
             ELSE IF qmd.update
                  THEN SyncOk("Updated", <<"collection add", "collection list", "update">>)
                  ELSE SyncErr(<<"collection add", "collection list", "update">>)
    ELSE SyncErr(<<"collection add">>)

InitQmd ==
    /\ now = 0
    /\ sessions = InitSessions
    /\ inbox = 0
    /\ files = <<>>
    /\ ledger = <<>>
    /\ ledgerTorn = FALSE
    /\ chanMap = <<>>
    /\ chanMapTorn = FALSE
    /\ stateFile = NoFile
    /\ memoryLog = <<>>
    /\ cfg = DefaultConfig
    /\ pc = "archive"
    /\ st = DefaultState
    /\ cyc = EmptyCycle
    /\ trace = <<>>
    /\ hist = [distilled |-> {}, deleted |-> {}, index_ok |-> {}, notified |-> {},
               triggered |-> <<>>]
    /\ budget = [cycles |-> 0, faults |-> 0, appends |-> 0, calls |-> 0]
    /\ call = <<>>
    /\ fnIn \in QmdAnswers
    /\ fnOut = <<>>

\* archive.rs archive_and_index, l. 962-964: the archives directory is
\* registered with the index
CollectionAddOrUpdate ==
    /\ pc = "archive"
    /\ fnOut = <<>>
    /\ fnOut' = collection_add_or_update(fnIn)
    /\ pc' = "compaction"
    /\ UNCHANGED <<now, sessions, inbox, files, ledger, ledgerTorn, chanMap,
                   chanMapTorn, stateFile, memoryLog, cfg, st, cyc, trace, hist,
                   budget, call, fnIn>>

NextQmd == CollectionAddOrUpdate

SpecQmd == InitQmd /\ [][NextQmd]_vars

(***************************************************************************)
(* Properties of the index registration (specification SpecQmd).           *)
(***************************************************************************)
Issued(command) == \E i \in 1..Len(fnOut.commands) : fnOut.commands[i] = command

AlreadyExists == ~fnIn.add.success /\ fnIn.add.diagnostic = "collection already exists"

PatternDiffers == fnIn.list \notin {"failed", "", ARCHIVE_COLLECTION_MASK}

\* the protocol when the binary is found and `collection list` answers
RegistrationProtocol ==
    /\ fnOut.commands[1] = "collection add"
    /\ fnIn.add.success => fnOut = SyncOk("Added", <<"collection add">>)
    /\ (AlreadyExists /\ PatternDiffers) =>
          /\ SubSeq(fnOut.commands, 1, 3)
                = <<"collection add", "collection list", "collection remove">>
          /\ fnIn.remove => /\ Len(fnOut.commands) = 4
                            /\ fnOut.commands[4] = "collection add"
          /\ fnOut.ok <=> (fnIn.remove /\ fnIn.readd)
          /\ fnOut.ok => fnOut.result = "Recreated"
    /\ (AlreadyExists /\ ~PatternDiffers) =>
          /\ fnOut.commands = <<"collection add", "collection list", "update">>
          /\ fnOut.ok <=> fnIn.update
          /\ fnOut.ok => fnOut.result = "Updated"
    /\ Issued("collection remove") => (AlreadyExists /\ PatternDiffers)
    /\ (~fnIn.add.success /\ ~AlreadyExists) => fnOut = SyncErr(<<"collection add">>)

\* C35 as stated: the protocol, and every failure other than the `already
\* exists` of the first add is returned as an error, that of `collection
\* list` included.
C35_IndexRegistrationAsStated ==
    (fnOut # <<>> /\ fnIn.bin_found) =>
       /\ RegistrationProtocol
       /\ (AlreadyExists /\ fnIn.list = "failed") => ~fnOut.ok

\* C35 (amended): collection_add_or_update first issues `collection add`;
\* on success it returns Added; on an `already exists` diagnostic it reads
\* the pattern from `collection list` and, if a pattern was read and differs
\* from **/*.md, issues `collection remove` and `collection add` (Recreated),
\* otherwise, also when `collection list` fails or shows no pattern, issues
\* `update` (Updated); `collection remove` is issued in no other case, and
\* every other failure is returned as an error.
C35_IndexRegistration ==
    (fnOut # <<>> /\ fnIn.bin_found) =>
       /\ RegistrationProtocol
       /\ (AlreadyExists /\ fnIn.list = "failed") => (fnOut.ok <=> fnIn.update)

C35_Witness ==
    /\ fnOut # <<>>
    /\ AlreadyExists
    /\ fnIn.list = "**/*.jsonl"
    /\ fnOut = SyncOk("Recreated", <<"collection add", "collection list",
                                     "collection remove", "collection add">>)

(***************************************************************************)
(* gateway.rs run_openclaw_retry against a binary whose outcome at each    *)
(* invocation is drawn.                                                    *)
(***************************************************************************)
MaxRetries == 2

BACKOFF_BASE_MS == 250

\* what one run_openclaw call gives: the binary exits successfully, exits
\* with a failure status, or cannot be run (an Err of run_openclaw)
Outcomes == {"success", "failure", "not_run"}

\* gateway.rs l. 50, as a bug would have it: a constant backoff
delay_ms_flat(attempt) == BACKOFF_BASE_MS

\* gateway.rs l. 50
delay_ms(attempt) == BACKOFF_BASE_MS * (attempt + 1)

Invoked(attempt) == [kind |-> "invoke", attempt |-> attempt, ms |-> 0]
Slept(attempt) == [kind |-> "sleep", attempt |-> attempt, ms |-> delay_ms(attempt)]

\* gateway.rs l. 43-53: the loop body from `attempt` on; events are the
\* invocations and sleeps so far
RECURSIVE retry_from(_, _, _, _)
retry_from(attempt, retries, outcomes, events) ==
    IF attempt > retries THEN [ok |-> FALSE, events |-> events]
    ELSE LET out == outcomes[attempt + 1]
             ran == Append(events, Invoked(attempt))
         IN  IF out = "not_run" THEN [ok |-> FALSE, events |-> ran]
             ELSE IF out = "success" THEN [ok |-> TRUE, events |-> ran]
             ELSE IF attempt < retries
             THEN retry_from(attempt + 1, retries, outcomes, Append(ran, Slept(attempt)))
             ELSE retry_from(attempt + 1, retries, outcomes, ran)

\* gateway.rs run_openclaw_retry, l. 40-67
run_openclaw_retry(retries, outcomes) == retry_from(0, retries, outcomes, <<>>)

InitRetry ==
    /\ now = 0
    /\ sessions = InitSessions
    /\ inbox = 0
    /\ files = <<>>
    /\ ledger = <<>>
    /\ ledgerTorn = FALSE
    /\ chanMap = <<>>
    /\ chanMapTorn = FALSE
    /\ stateFile = NoFile
    /\ memoryLog = <<>>
    /\ cfg = DefaultConfig
    /\ pc = "call"
    /\ st = DefaultState
    /\ cyc = EmptyCycle
    /\ trace = <<>>
    /\ hist = [distilled |-> {}, deleted |-> {}, index_ok |-> {}, notified |-> {},
               triggered |-> <<>>]
    /\ budget = [cycles |-> 0, faults |-> 0, appends |-> 0, calls |-> 0]
    /\ call = <<>>
    /\ fnIn \in [retries : 0..MaxRetries, outcomes : [1..(MaxRetries + 1) -> Outcomes]]
    /\ fnOut = <<>>

RunOpenclawRetry ==
    /\ pc = "call"
    /\ fnOut = <<>>
    /\ fnOut' = run_openclaw_retry(fnIn.retries, fnIn.outcomes)
    /\ pc' = "returned"
    /\ UNCHANGED <<now, sessions, inbox, files, ledger, ledgerTorn, chanMap,
                   chanMapTorn, stateFile, memoryLog, cfg, st, cyc, trace, hist,
                   budget, call, fnIn>>

NextRetry == RunOpenclawRetry

SpecRetry == InitRetry /\ [][NextRetry]_vars

(***************************************************************************)
(* Properties of the retry (specification SpecRetry).                      *)
(***************************************************************************)
Invocations == {i \in 1..Len(fnOut.events) : fnOut.events[i].kind = "invoke"}

FirstSuccess(n) ==
    /\ fnIn.outcomes[n] = "success"
    /\ \A k \in 1..(n - 1) : fnIn.outcomes[k] # "success"

\* C36: run_openclaw_retry invokes the binary at most retries+1 times,
\* returns Ok at the first successful invocation and invokes no more, sleeps
\* 250 ms * (attempt+1) between two consecutive attempts and not after the
\* last one, and returns an error when every attempt fails.
C36_AgentBinaryRetry ==
    fnOut # <<>> =>
       LET events == fnOut.events
           n == Cardinality(Invocations)
       IN  /\ n <= fnIn.retries + 1
           /\ Len(events) = 2 * n - 1
           /\ \A i \in 1..Len(events) :
                 IF i % 2 = 1
                 THEN events[i].kind = "invoke" /\ events[i].attempt = (i - 1) \div 2
                 ELSE events[i].kind = "sleep" /\ events[i].ms = 250 * (i \div 2)
           /\ fnOut.ok <=> FirstSuccess(n)
           /\ (\A k \in 1..(fnIn.retries + 1) : fnIn.outcomes[k] # "success") => ~fnOut.ok
           /\ (\A k \in 1..(fnIn.retries + 1) : fnIn.outcomes[k] = "failure")
                 => n = fnIn.retries + 1

C36_Witness ==
    /\ fnOut # <<>>
    /\ fnOut.ok
    /\ fnIn.retries = 2
    /\ Len(fnOut.events) = 5
    /\ fnOut.events[2].ms = 250
    /\ fnOut.events[4].ms = 500

(***************************************************************************)
(* distill.rs resolve_remote_config over a drawn environment.  A model     *)
(* name is the pair of what stands before its first colon (prefix, "" when *)
(* it has no colon) and the family its remainder begins with.              *)
(***************************************************************************)
ModelName(prefix, family) == [prefix |-> prefix, family |-> family]

ModelNames ==
    {ModelName("", "gpt-"), ModelName("", "deepseek-"), ModelName("", "other"),
     ModelName("claude", "other"), ModelName("claude", "gpt-"),
     ModelName("gemini", "deepseek-"), ModelName("bogus", "gpt-")}

\* the environment after env_non_empty (l. 155-160): Unset stands for an
\* unset, empty or blank provider variable and None for such a model
\* variable; a key is TRUE when it has a value
RemoteEnvs ==
    [MOON_DISTILL_PROVIDER : {Unset, "local", "openai", "claude", "bogus"},
     AI_PROVIDER : {Unset, "gemini"},
     MOON_DISTILL_MODEL : {None} \cup {Some(m) : m \in ModelNames},
     AI_MODEL : {None, Some(ModelName("", "claude-"))},
     MOON_GEMINI_MODEL : {None, Some(ModelName("", "gemini-"))},
     AI_BASE_URL : BOOLEAN, AI_API_KEY : BOOLEAN, OPENAI_API_KEY : BOOLEAN,
     ANTHROPIC_API_KEY : BOOLEAN, GEMINI_API_KEY : BOOLEAN, DEEPSEEK_API_KEY : BOOLEAN]

\* distill.rs parse_provider_alias, l. 162-170
parse_provider_alias(raw) ==
    CASE raw = "openai" -> Some("OpenAi")
      [] raw \in {"anthropic", "claude"} -> Some("Anthropic")
      [] raw \in {"gemini", "google"} -> Some("Gemini")
      [] raw \in {"openai-compatible", "compatible", "deepseek"} -> Some("OpenAiCompatible")
      [] OTHER -> None

\* distill.rs parse_prefixed_model, l. 172-180: the provider of the prefix
\* and the model without it; a prefix that is no alias stays in the name
parse_prefixed_model(raw) ==
    IF raw.prefix # "" /\ IsSome(parse_provider_alias(raw.prefix))
    THEN [provider |-> parse_provider_alias(raw.prefix), model |-> ModelName("", raw.family)]
    ELSE [provider |-> None, model |-> raw]

\* distill.rs infer_provider_from_model, l. 182-201
infer_provider_from_model(model) ==
    IF model.prefix # "" THEN None
    ELSE CASE model.family = "deepseek-" -> Some("OpenAiCompatible")
           [] model.family = "claude-" -> Some("Anthropic")
           [] model.family = "gemini-" -> Some("Gemini")
           [] model.family = "gpt-" -> Some("OpenAi")
           [] OTHER -> None

\* distill.rs first_available_provider, l. 203-220
first_available_provider(env) ==
    IF env.AI_BASE_URL /\ env.AI_API_KEY THEN Some("OpenAiCompatible")
    ELSE IF env.AI_API_KEY THEN Some("OpenAiCompatible")
    ELSE IF env.OPENAI_API_KEY THEN Some("OpenAi")
    ELSE IF env.ANTHROPIC_API_KEY THEN Some("Anthropic")
    ELSE IF env.GEMINI_API_KEY THEN Some("Gemini")
    ELSE None

\* distill.rs default_model_for_provider, l. 222-229
default_model_for_provider(provider) ==
    CASE provider = "OpenAi" -> ModelName("", "gpt-")
      [] provider = "Anthropic" -> ModelName("", "claude-")
      [] provider = "Gemini" -> ModelName("", "gemini-")
      [] provider = "OpenAiCompatible" -> ModelName("", "deepseek-")

\* distill.rs resolve_api_key, l. 231-246: the variable the key is taken from
resolve_api_key(provider, env) ==
    LET own == CASE provider = "OpenAi" -> <<"OPENAI_API_KEY", "AI_API_KEY">>
                 [] provider = "Anthropic" -> <<"ANTHROPIC_API_KEY", "AI_API_KEY">>
                 [] provider = "Gemini" -> <<"GEMINI_API_KEY", "AI_API_KEY">>
                 [] provider = "OpenAiCompatible" ->
                        <<"AI_API_KEY", "DEEPSEEK_API_KEY", "OPENAI_API_KEY">>
        set == {i \in 1..Len(own) : env[own[i]]}
    IN  IF set = {} THEN None
        ELSE Some(own[CHOOSE i \in set : \A j \in set : i <= j])

\* distill.rs resolve_remote_config, l. 272-288: chosen_provider
chosen_provider_of(configured, prefixed, env) ==
    IF IsSome(configured) THEN configured
    ELSE IF IsSome(prefixed.provider) THEN prefixed.provider
    ELSE IF IsSome(infer_provider_from_model(prefixed.model))
    THEN infer_provider_from_model(prefixed.model)
    ELSE first_available_provider(env)

NoModel == ModelName("", "")

\* distill.rs resolve_remote_config, l. 258-304
resolve_remote_config(env) ==
    IF env.MOON_DISTILL_PROVIDER = "local" THEN None
    ELSE LET configured_model ==
                 IF IsSome(env.MOON_DISTILL_MODEL) THEN env.MOON_DISTILL_MODEL
                 ELSE IF IsSome(env.AI_MODEL) THEN env.AI_MODEL
                 ELSE IF IsSome(env.MOON_GEMINI_MODEL) THEN env.MOON_GEMINI_MODEL
                 ELSE IF IsSome(first_available_provider(env))
                 THEN Some(default_model_for_provider(Unwrap(first_available_provider(env))))
                 ELSE None
             from_distill == IF env.MOON_DISTILL_PROVIDER = Unset THEN None
                             ELSE parse_provider_alias(env.MOON_DISTILL_PROVIDER)
             configured == IF IsSome(from_distill) THEN from_distill
                           ELSE IF env.AI_PROVIDER = Unset THEN None
                           ELSE parse_provider_alias(env.AI_PROVIDER)
             prefixed == IF IsSome(configured_model)
                         THEN parse_prefixed_model(Unwrap(configured_model))
                         ELSE [provider |-> None, model |-> NoModel]
             chosen_provider == chosen_provider_of(configured, prefixed, env)
         IN  IF ~IsSome(chosen_provider) THEN None
             ELSE LET provider == Unwrap(chosen_provider)
                      model == IF prefixed.model = NoModel
                               THEN default_model_for_provider(provider)
                               ELSE prefixed.model
                      base_url == IF provider # "OpenAiCompatible" THEN None
                                  ELSE IF env.AI_BASE_URL THEN Some("AI_BASE_URL")
                                  ELSE IF model.prefix = "" /\ model.family = "deepseek-"
                                  THEN Some("https://api.deepseek.com")
                                  ELSE None
                      api_key == resolve_api_key(provider, env)
                  IN  IF ~IsSome(api_key) THEN None
                      ELSE Some([provider |-> provider, model |-> model,
                                 api_key |-> Unwrap(api_key), base_url |-> base_url])

InitRemote ==
    /\ now = 0
    /\ sessions = InitSessions
    /\ inbox = 0
    /\ files = <<>>
    /\ ledger = <<>>
    /\ ledgerTorn = FALSE
    /\ chanMap = <<>>
    /\ chanMapTorn = FALSE
    /\ stateFile = NoFile
    /\ memoryLog = <<>>
    /\ cfg = DefaultConfig
    /\ pc = "distill_run"
    /\ st = DefaultState
    /\ cyc = EmptyCycle
    /\ trace = <<>>
    /\ hist = [distilled |-> {}, deleted |-> {}, index_ok |-> {}, notified |-> {},
               triggered |-> <<>>]
    /\ budget = [cycles |-> 0, faults |-> 0, appends |-> 0, calls |-> 0]
    /\ call = <<>>
    /\ fnIn \in RemoteEnvs
    /\ fnOut = <<>>

\* distill.rs l. 258: the backend is resolved from the environment when a
\* distillation starts
ResolveRemoteConfig ==
    /\ pc = "distill_run"
    /\ fnOut = <<>>
    /\ fnOut' = [remote |-> resolve_remote_config(fnIn)]
    /\ pc' = "retention"
    /\ UNCHANGED <<now, sessions, inbox, files, ledger, ledgerTorn, chanMap,
                   chanMapTorn, stateFile, memoryLog, cfg, st, cyc, trace, hist,
                   budget, call, fnIn>>

NextRemote == ResolveRemoteConfig

SpecRemote == InitRemote /\ [][NextRemote]_vars

(***************************************************************************)
(* Properties of the backend selection (specification SpecRemote).         *)
(***************************************************************************)
\* the model name the selection looks at, as the claim's steps 1 and 3 do
ConfiguredModelName ==
    IF IsSome(fnIn.MOON_DISTILL_MODEL) THEN Unwrap(fnIn.MOON_DISTILL_MODEL)
    ELSE IF IsSome(fnIn.AI_MODEL) THEN Unwrap(fnIn.AI_MODEL)
    ELSE IF IsSome(fnIn.MOON_GEMINI_MODEL) THEN Unwrap(fnIn.MOON_GEMINI_MODEL)
    ELSE NoModel

ConfiguredAlias ==
    IF fnIn.MOON_DISTILL_PROVIDER # Unset /\ IsSome(parse_provider_alias(fnIn.MOON_DISTILL_PROVIDER))
    THEN parse_provider_alias(fnIn.MOON_DISTILL_PROVIDER)
    ELSE IF fnIn.AI_PROVIDER # Unset THEN parse_provider_alias(fnIn.AI_PROVIDER)
    ELSE None

\* the claim's fourth step: AI_BASE_URL+AI_API_KEY, OPENAI_API_KEY,
\* ANTHROPIC_API_KEY, GEMINI_API_KEY
ClaimedAvailability ==
    IF fnIn.AI_BASE_URL /\ fnIn.AI_API_KEY THEN Some("OpenAiCompatible")
    ELSE IF fnIn.OPENAI_API_KEY THEN Some("OpenAi")
    ELSE IF fnIn.ANTHROPIC_API_KEY THEN Some("Anthropic")
    ELSE IF fnIn.GEMINI_API_KEY THEN Some("Gemini")
    ELSE None

\* the provider the claim's order gives: prefix, alias, model name, keys
ClaimedProvider ==
    LET prefixed == parse_prefixed_model(ConfiguredModelName)
    IN  IF IsSome(prefixed.provider) THEN prefixed.provider
        ELSE IF IsSome(ConfiguredAlias) THEN ConfiguredAlias
        ELSE IF IsSome(infer_provider_from_model(prefixed.model))
        THEN infer_provider_from_model(prefixed.model)
        ELSE ClaimedAvailability

\* C37: resolve_remote_config selects no remote backend when the provider is
\* configured as local; otherwise the selected provider is the first that
\* applies of the model prefix, the configured provider alias, the inference
\* from the model name, and the key availability in the stated order.
C37_BackendPrecedence ==
    fnOut # <<>> =>
       /\ fnIn.MOON_DISTILL_PROVIDER = "local" => fnOut.remote = None
       /\ (IsSome(fnOut.remote) /\ IsSome(ClaimedProvider))
             => Unwrap(fnOut.remote).provider = Unwrap(ClaimedProvider)

\* the same with the alias before the prefix and AI_API_KEY alone counted
\* as availability of the compatible backend: what the code does
C37_CodeOrder ==
    fnOut # <<>> =>
       /\ fnIn.MOON_DISTILL_PROVIDER = "local" => fnOut.remote = None
       /\ IsSome(fnOut.remote) =>
            LET prefixed == parse_prefixed_model(ConfiguredModelName)
                provider == Unwrap(fnOut.remote).provider
            IN  IF IsSome(ConfiguredAlias) THEN provider = Unwrap(ConfiguredAlias)
                ELSE IF IsSome(prefixed.provider) THEN provider = Unwrap(prefixed.provider)
                ELSE IF IsSome(infer_provider_from_model(prefixed.model))
                THEN provider = Unwrap(infer_provider_from_model(prefixed.model))
                ELSE Some(provider) = first_available_provider(fnIn)

\* the alias is taken although the model carries another provider's prefix
C37_AliasOverPrefix ==
    ~(/\ fnOut # <<>>
      /\ fnIn.MOON_DISTILL_PROVIDER = "openai"
      /\ fnIn.MOON_DISTILL_MODEL = Some(ModelName("claude", "other"))
      /\ IsSome(fnOut.remote)
      /\ Unwrap(fnOut.remote).provider = "OpenAi")

(***************************************************************************)
(* snapshot.rs latest_session_file over a drawn sessions directory.  A     *)
(* file name is the sequence of its lower-cased parts between the dots.    *)
(***************************************************************************)
MaxEntries == 3

MaxMtime == 1

FileNames ==
    {<<"abc", "jsonl">>, <<"abc", "json">>, <<"sessions", "json">>,
     <<"abc", "jsonl", "lock">>, <<"abc", "md">>, <<"sub", "json">>}

\* an entry of the directory; sub.json is a directory, the others are files
DirEntries ==
    {[name |-> n, is_file |-> n # <<"sub", "json">>, modified |-> m] :
        n \in FileNames, m \in 0..MaxMtime}

\* the listings read_dir may give: entries of distinct names in any order
SessionDirs ==
    {d \in UNION {[1..n -> DirEntries] : n \in 0..MaxEntries} :
        \A i, j \in 1..Len(d) : d[i].name = d[j].name => i = j}

\* snapshot.rs is_session_snapshot_candidate, as a bug would have it: the
\* session index sessions.json is not excluded
is_session_snapshot_candidate_any_json(name) ==
    LET last == name[Len(name)]
    IN  /\ ~(Len(name) >= 2 /\ last \in {"lock", "tmp", "swp", "part"})
        /\ Len(name) >= 2
        /\ last \in {"jsonl", "json"}

\* snapshot.rs is_session_snapshot_candidate, l. 13-37
is_session_snapshot_candidate(name) ==
    LET last == name[Len(name)]
    IN  /\ ~(Len(name) >= 2 /\ last \in {"lock", "tmp", "swp", "part"})
        /\ Len(name) >= 2
        /\ \/ last = "jsonl"
           \/ last = "json" /\ name # <<"sessions", "json">>

\* snapshot.rs latest_session_file, l. 68-83: the loop from entry i on
RECURSIVE latest_from(_, _, _)
latest_from(dir, i, latest) ==
    IF i > Len(dir) THEN latest
    ELSE LET entry == dir[i]
         IN  IF ~entry.is_file THEN latest_from(dir, i + 1, latest)
             ELSE IF ~is_session_snapshot_candidate(entry.name)
             THEN latest_from(dir, i + 1, latest)
             ELSE IF IsSome(latest) /\ entry.modified <= Unwrap(latest).modified
             THEN latest_from(dir, i + 1, latest)
             ELSE latest_from(dir, i + 1, Some(entry))

\* snapshot.rs latest_session_file, l. 63-86
latest_session_file(readable, dir) ==
    IF ~readable THEN [ok |-> FALSE, file |-> None]
    ELSE LET latest == latest_from(dir, 1, None)
         IN  [ok |-> TRUE,
              file |-> IF IsSome(latest) THEN Some(Unwrap(latest).name) ELSE None]

InitSnapshot ==
    /\ now = 0
    /\ sessions = InitSessions
    /\ inbox = 0
    /\ files = <<>>
    /\ ledger = <<>>
    /\ ledgerTorn = FALSE
    /\ chanMap = <<>>
    /\ chanMapTorn = FALSE
    /\ stateFile = NoFile
    /\ memoryLog = <<>>
    /\ cfg = DefaultConfig
    /\ pc = "archive"
    /\ st = DefaultState
    /\ cyc = EmptyCycle
    /\ trace = <<>>
    /\ hist = [distilled |-> {}, deleted |-> {}, index_ok |-> {}, notified |-> {},
               triggered |-> <<>>]
    /\ budget = [cycles |-> 0, faults |-> 0, appends |-> 0, calls |-> 0]
    /\ call = <<>>
    /\ fnIn \in [readable : BOOLEAN, dir : SessionDirs]
    /\ fnOut = <<>>

LatestSessionFile ==
    /\ pc = "archive"
    /\ fnOut = <<>>
    /\ fnOut' = latest_session_file(fnIn.readable, fnIn.dir)
    /\ pc' = "compaction"
    /\ UNCHANGED <<now, sessions, inbox, files, ledger, ledgerTorn, chanMap,
                   chanMapTorn, stateFile, memoryLog, cfg, st, cyc, trace, hist,
                   budget, call, fnIn>>

NextSnapshot == LatestSessionFile

SpecSnapshot == InitSnapshot /\ [][NextSnapshot]_vars

(***************************************************************************)
(* Properties of the snapshot source (specification SpecSnapshot).         *)
(***************************************************************************)
\* the entries the claim lets through
Qualifies(e) ==
    /\ e.is_file
    /\ e.name # <<"sessions", "json">>
    /\ e.name[Len(e.name)] \notin {"lock", "tmp", "swp", "part"}
    /\ Len(e.name) >= 2
    /\ e.name[Len(e.name)] \in {"jsonl", "json"}

Qualifying == {i \in 1..Len(fnIn.dir) : Qualifies(fnIn.dir[i])}

\* C38: latest_session_file returns a file of the greatest mtime among the
\* regular files of the directory that are not named sessions.json, do not
\* end in .lock/.tmp/.swp/.part and have extension jsonl or json; it returns
\* None when no file qualifies and never a file that does not qualify.
C38_SnapshotSourceChoice ==
    (fnOut # <<>> /\ fnOut.ok) =>
       IF Qualifying = {} THEN fnOut.file = None
       ELSE /\ IsSome(fnOut.file)
            /\ \E i \in Qualifying :
                  /\ fnIn.dir[i].name = Unwrap(fnOut.file)
                  /\ \A j \in Qualifying : fnIn.dir[j].modified <= fnIn.dir[i].modified

C38_Witness ==
    /\ fnOut # <<>>
    /\ fnOut.ok
    /\ IsSome(fnOut.file)
    /\ \E i, j, k \in 1..Len(fnIn.dir) :
          /\ fnIn.dir[i].name = Unwrap(fnOut.file)
          /\ fnIn.dir[j].name = <<"sessions", "json">>
          /\ fnIn.dir[j].modified > fnIn.dir[i].modified
          /\ Qualifies(fnIn.dir[k])
          /\ k # i

(***************************************************************************)
(* thresholds.rs evaluate_context_compaction_candidate over drawn ratios.  *)
(***************************************************************************)
\* ratios as fractions, the unit tests' values (l. 137-154) among them
CandidateRatios == {<<70, 100>>, <<78, 100>>, <<82, 100>>, <<85, 100>>, <<90, 100>>, <<95, 100>>}

StartRatios == {<<78, 100>>, <<85, 100>>, <<95, 100>>}

EmergencyRatios == {<<70, 100>>, <<90, 100>>, <<95, 100>>}

\* thresholds.rs evaluate_context_compaction_candidate, as a bug would have
\* it: a cooldown that is not ready is bypassed at any usage
evaluate_context_compaction_candidate_any(usage, start, emergency, cooldown_ready) ==
    IF ~RatioGE(usage, start)
    THEN [should_compact |-> FALSE, bypassed_cooldown |-> FALSE]
    ELSE [should_compact |-> TRUE, bypassed_cooldown |-> ~cooldown_ready]

\* thresholds.rs evaluate_context_compaction_candidate, l. 17-42
evaluate_context_compaction_candidate(usage, start, emergency, cooldown_ready) ==
    IF ~RatioGE(usage, start)
    THEN [should_compact |-> FALSE, bypassed_cooldown |-> FALSE]
    ELSE LET bypassed_cooldown == ~cooldown_ready /\ RatioGE(usage, emergency)
         IN  IF cooldown_ready \/ bypassed_cooldown
             THEN [should_compact |-> TRUE, bypassed_cooldown |-> bypassed_cooldown]
             ELSE [should_compact |-> FALSE, bypassed_cooldown |-> FALSE]

InitCandidate ==
    /\ now = 0
    /\ sessions = InitSessions
    /\ inbox = 0
    /\ files = <<>>
    /\ ledger = <<>>
    /\ ledgerTorn = FALSE
    /\ chanMap = <<>>
    /\ chanMapTorn = FALSE
    /\ stateFile = NoFile
    /\ memoryLog = <<>>
    /\ cfg = DefaultConfig
    /\ pc = "compaction"
    /\ st = DefaultState
    /\ cyc = EmptyCycle
    /\ trace = <<>>
    /\ hist = [distilled |-> {}, deleted |-> {}, index_ok |-> {}, notified |-> {},
               triggered |-> <<>>]
    /\ budget = [cycles |-> 0, faults |-> 0, appends |-> 0, calls |-> 0]
    /\ call = <<>>
    /\ fnIn \in [usage : CandidateRatios, start : StartRatios,
                 emergency : EmergencyRatios, cooldown_ready : BOOLEAN]
    /\ fnOut = <<>>

EvaluateCandidate ==
    /\ pc = "compaction"
    /\ fnOut = <<>>
    /\ fnOut' = evaluate_context_compaction_candidate(fnIn.usage, fnIn.start,
                                                      fnIn.emergency, fnIn.cooldown_ready)
    /\ pc' = "distill"
    /\ UNCHANGED <<now, sessions, inbox, files, ledger, ledgerTorn, chanMap,
                   chanMapTorn, stateFile, memoryLog, cfg, st, cyc, trace, hist,
                   budget, call, fnIn>>

NextCandidate == EvaluateCandidate

SpecCandidate == InitCandidate /\ [][NextCandidate]_vars

(***************************************************************************)
(* Properties of the candidate evaluation (specification SpecCandidate).   *)
(***************************************************************************)
\* C39: should_compact is true exactly when usage >= start and (the cooldown
\* is ready or usage >= emergency); bypassed_cooldown is true exactly when
\* should_compact is true, the cooldown is not ready and usage >= emergency;
\* the cooldown is never bypassed below the emergency ratio.
C39_EmergencyCooldownBypass ==
    fnOut # <<>> =>
       /\ fnOut.should_compact <=>
             /\ RatioGE(fnIn.usage, fnIn.start)
             /\ fnIn.cooldown_ready \/ RatioGE(fnIn.usage, fnIn.emergency)
       /\ fnOut.bypassed_cooldown <=>
             /\ fnOut.should_compact
             /\ ~fnIn.cooldown_ready
             /\ RatioGE(fnIn.usage, fnIn.emergency)
       /\ ~RatioGE(fnIn.usage, fnIn.emergency) => ~fnOut.bypassed_cooldown

C39_Witness ==
    /\ fnOut # <<>>
    /\ fnIn.usage = <<95, 100>>
    /\ fnIn.start = <<78, 100>>
    /\ fnIn.emergency = <<90, 100>>
    /\ ~fnIn.cooldown_ready
    /\ fnOut.should_compact
    /\ fnOut.bypassed_cooldown

(***************************************************************************)
(* archive.rs normalize_archive_layout when a step of it fails.  The       *)
(* ledger is written once, after the loop and the sweeps (l. 714-717);     *)
(* every `?` before that returns with the files as they are by then.       *)
(***************************************************************************)
\* the archive of a source written at second 0, flat or under raw/
MigrationArchive(source, dir) ==
    [dir |-> dir, name |-> <<sanitize_slug(source.stem), 0>>, ext |-> source.ext]

MigrationBytes(source) == IF source = SrcA THEN 1 ELSE 2

MigrationRecord(source, dir, projected) ==
    [session_id |-> source.stem,
     source_path |-> source,
     archive_path |-> MigrationArchive(source, dir),
     projection_path |->
        IF projected
        THEN Some(projection_path_for_archive_path(MigrationArchive(source, dir)))
        ELSE None,
     content_hash |-> file_hash(MigrationBytes(source)),
     created_at_epoch_secs |-> 0,
     indexed_collection |-> "history",
     indexed |-> projected]

MigrationRecords ==
    {MigrationRecord(s, dir, projected) :
        s \in Sources, dir \in {"flat", "raw"}, projected \in BOOLEAN}

\* the ledgers: at most one record for a source, in any order
MigrationLedgers ==
    {lg \in UNION {[1..n -> MigrationRecords] : n \in 0..Cardinality(Sources)} :
        \A i, j \in 1..Len(lg) : lg[i].source_path = lg[j].source_path => i = j}

\* the files a ledger names
RECURSIVE MigrationFiles(_)
MigrationFiles(lg) ==
    IF lg = <<>> THEN <<>>
    ELSE LET r == Head(lg)
             with_archive == WriteFile(MigrationFiles(Tail(lg)), r.archive_path,
                                       MigrationBytes(r.source_path))
         IN  IF IsSome(r.projection_path)
             THEN WriteFile(with_archive, Unwrap(r.projection_path),
                            ProjectionBytes(r.content_hash))
             ELSE with_archive

\* archive.rs normalize_archive_layout, l. 605-619: whether the record's
\* archive is moved by move_file
MovesArchive(record, fl) ==
    /\ Exists(fl, record.archive_path)
    /\ record.archive_path.dir # "raw"
    /\ ~Exists(fl, [record.archive_path EXCEPT !.dir = "raw"])

\* archive.rs l. 619: the files after move_file of the record's archive
AfterArchiveMove(record, fl) ==
    WriteFile(RemoveFiles(fl, {record.archive_path}),
              [record.archive_path EXCEPT !.dir = "raw"], fl[record.archive_path])

\* archive.rs normalize_archive_layout, l. 594-720, when the step `fault` of
\* record k fails: the records before k are done, record k up to the failing
\* step, and write_ledger (l. 714-717) is not reached
normalize_archive_layout_failing(fl, lg, k, fault) ==
    LET before == normalize_records(SubSeq(lg, 1, k - 1), <<>>, fl)
    IN  [ok |-> FALSE,
         files |-> IF fault = "move_file" THEN before.files
                   ELSE AfterArchiveMove(lg[k], before.files),
         ledger |-> lg]

\* whether step `fault` of record k is executed at all
FaultApplies(fl, lg, k, fault) ==
    LET before == normalize_records(SubSeq(lg, 1, k - 1), <<>>, fl)
    IN  /\ MovesArchive(lg[k], before.files)
        /\ fault = "move_projection_file" =>
              /\ IsSome(lg[k].projection_path)
              /\ Exists(before.files, Unwrap(lg[k].projection_path))

InitMigrate ==
    /\ now = 0
    /\ sessions = InitSessions
    /\ inbox = 0
    /\ ledger \in MigrationLedgers
    /\ files = MigrationFiles(ledger)
    /\ ledgerTorn = FALSE
    /\ chanMap = <<>>
    /\ chanMapTorn = FALSE
    /\ stateFile = NoFile
    /\ memoryLog = <<>>
    /\ cfg = DefaultConfig
    /\ pc = "archiving"
    /\ st = DefaultState
    /\ cyc = EmptyCycle
    /\ trace = <<>>
    /\ hist = [distilled |-> {}, deleted |-> {}, index_ok |-> {}, notified |-> {},
               triggered |-> <<>>]
    /\ budget = [cycles |-> 0, faults |-> 0, appends |-> 0, calls |-> 0]
    /\ call = <<>>
    /\ fnIn = [files |-> files]
    /\ fnOut = <<>>

\* one run of normalize_archive_layout: to the end, or up to a move of an
\* archive (move_file, l. 619) or of a projection (move_projection_file,
\* l. 648) that fails
MigrateLayout ==
    /\ pc = "archiving"
    /\ \E k \in 0..Len(ledger), fault \in {"move_file", "move_projection_file"} :
          LET n == IF k = 0
                   THEN [ok |-> TRUE] @@ normalize_archive_layout(files, ledger)
                   ELSE normalize_archive_layout_failing(files, ledger, k, fault)
          IN  /\ k > 0 => FaultApplies(files, ledger, k, fault)
              /\ files' = n.files
              /\ ledger' = n.ledger
              /\ fnOut' = [ok |-> n.ok]
    /\ pc' = "compacting"
    /\ UNCHANGED <<now, sessions, inbox, ledgerTorn, chanMap, chanMapTorn, stateFile,
                   memoryLog, cfg, st, cyc, trace, hist, budget, call, fnIn>>

NextMigrate == MigrateLayout

SpecMigrate == InitMigrate /\ [][NextMigrate]_vars

(***************************************************************************)
(* Properties of a failing migration (specification SpecMigrate).          *)
(***************************************************************************)
\* C40: when normalize_archive_layout returns an error part-way, the ledger
\* on disk names, for every record, the place its archive and its projection
\* are at: no record points at a path its file has been moved away from.
C40_MigrationFailureAtomicity ==
    (fnOut # <<>> /\ ~fnOut.ok) =>
       \A i \in 1..Len(ledger) :
          /\ Exists(fnIn.files, ledger[i].archive_path)
                => Exists(files, ledger[i].archive_path)
          /\ (IsSome(ledger[i].projection_path)
              /\ Exists(fnIn.files, Unwrap(ledger[i].projection_path)))
                => Exists(files, Unwrap(ledger[i].projection_path))

\* a run to the end leaves no record pointing at a moved file
C40_CompletedMigration ==
    (fnOut # <<>> /\ fnOut.ok) =>
       \A i \in 1..Len(ledger) :
          /\ Exists(files, ledger[i].archive_path)
          /\ IsSome(ledger[i].projection_path)
                => Exists(files, Unwrap(ledger[i].projection_path))

====
